---- MODULE Spec2Model ----
(***************************************************************************)
(* The direct (stateless) resource cache of the Azure cloud provider:      *)
(* DirectResourceCache in azure_direct_cache.go.  The engine retains only  *)
(* the registered node-group slice; everything else is fetched from the    *)
(* remote API on every call.                                               *)
(***************************************************************************)
EXTENDS Integers, Sequences, FiniteSets, TLC

VARIABLES
    heap,              \* backing arrays of Go slices: array id -> cells
    reg,               \* d.registeredNodeGroups, a slice header [arr, len]
    held,              \* per caller: the slice last returned by getRegisteredNodeGroups
    frame,             \* per caller: the call in progress or last returned
    rlock,             \* callers holding d.mutex for reading
    members,           \* per node group: what its Nodes() returns now
    remoteScaleSets,   \* what virtualMachineScaleSetsClient.List returns now
    remotePools,       \* the pages agentPoolClient's pager returns now
    enableVMsAgentPool, \* d.config.EnableVMsAgentPool (and a non-nil agentPoolClient)
    remoteVMs,         \* what virtualMachinesClient.List returns now
    snapshot,          \* the cached engine's Snapshot
    now,               \* the clock the cached engine reads
    instanceCache      \* the instance cache of one scalable group

vars == <<heap, reg, held, frame, rlock, members, remoteScaleSets, remotePools,
          enableVMsAgentPool, remoteVMs, snapshot, now, instanceCache>>

\* what the direct engine's registrations, lookups and SKU calls never touch
otherVars == <<remoteVMs, snapshot, now, instanceCache>>

(***************************************************************************)
(* Bounds of the model and constants of the program.                       *)
(***************************************************************************)
MaxMembers == 1        \* longest member list a group's Nodes() returns
MockMinSize == 1       \* mockNodeGroup.MinSize
MockMaxSize == 10      \* mockNodeGroup.MaxSize
MaxNow == 2            \* the clock stops here
CachedTTL == 1         \* the cached engine's snapshot TTL, in clock ticks
InstanceTTL == 2       \* the instance cache's TTL, longer than the snapshot's
MaxJitter == 1         \* largest jitter added to the instance cache's TTL
MaxRefreshes == 2      \* no new access once the instance cache was fetched this often

Threads == {"t1", "t2"}

(***************************************************************************)
(* Strings are sequences of characters; strings.EqualFold compares them    *)
(* character by character under case folding.                              *)
(***************************************************************************)
ToLower(c) ==
    CASE c = "A" -> "a"
      [] c = "B" -> "b"
      [] c = "P" -> "p"
      [] c = "R" -> "r"
      [] c = "X" -> "x"
      [] OTHER -> c

LowerStr(s) == [i \in 1..Len(s) |-> ToLower(s[i])]

EqualFoldExact(s, t) == s = t

EqualFold(s, t) ==
    /\ Len(s) = Len(t)
    /\ \A i \in 1..Len(s) : ToLower(s[i]) = ToLower(t[i])

(***************************************************************************)
(* Node groups: cloudprovider.NodeGroup values with Id(), MinSize() and    *)
(* MaxSize().  NoGroup is the nil interface value.                         *)
(***************************************************************************)
Ids == {<<"p", "a">>, <<"P", "A">>, <<"p", "b">>, <<"p">>}

MockGroup(id) == [id |-> id, min |-> MockMinSize, max |-> MockMaxSize]

Groups ==
    {MockGroup(id) : id \in Ids}
        \cup {[id |-> <<"p", "a">>, min |-> MockMinSize + 1, max |-> MockMaxSize],
              [id |-> <<"p", "a">>, min |-> MockMinSize, max |-> MockMaxSize + 1]}

NoGroup == [id |-> <<>>, min |-> 0, max |-> 0]

(***************************************************************************)
(* Go slices.  A slice header names a backing array and a length; its      *)
(* capacity is the array's size.  Array 0 is the zero-size array every     *)
(* empty allocation shares.  Arrays no slice refers to are collected.      *)
(***************************************************************************)
NumArrays == Cardinality(Threads) + 2

ArrIds == 1..NumArrays

EmptySlice == [arr |-> 0, len |-> 0]

Cap(h, s) == IF s.arr = 0 THEN 0 ELSE Len(h[s.arr])

Elems(h, s) == [i \in 1..s.len |-> h[s.arr][i]]

FreeArr(h) == CHOOSE a \in ArrIds : h[a] = <<>> /\ \A b \in ArrIds : h[b] = <<>> => a <= b

\* make([]T, 0, n)
MakeSlice(h, n) ==
    IF n = 0
    THEN [heap |-> h, slice |-> EmptySlice]
    ELSE LET a == FreeArr(h)
         IN  [heap |-> [h EXCEPT ![a] = [i \in 1..n |-> NoGroup]],
              slice |-> [arr |-> a, len |-> 0]]

\* the capacity append grows a full slice of capacity c to
GrowCap(c) == IF c = 0 THEN 1 ELSE 2 * c

\* append(s, x)
AppendSlice(h, s, x) ==
    IF s.len < Cap(h, s)
    THEN [heap |-> [h EXCEPT ![s.arr][s.len + 1] = x],
          slice |-> [s EXCEPT !.len = s.len + 1]]
    ELSE LET a == FreeArr(h)
             n == GrowCap(Cap(h, s))
             old == Elems(h, s)
         IN  [heap |-> [h EXCEPT ![a] =
                          [i \in 1..n |-> IF i <= s.len THEN old[i]
                                          ELSE IF i = s.len + 1 THEN x ELSE NoGroup]],
              slice |-> [arr |-> a, len |-> s.len + 1]]

\* s[i] = x
SetIndex(h, s, i, x) == [h EXCEPT ![s.arr][i] = x]

Collect(h, roots) == [a \in ArrIds |-> IF a \in roots THEN h[a] ELSE <<>>]

Roots(r, hd) == {r.arr} \cup {hd[t].arr : t \in Threads}

(***************************************************************************)
(* The frame of a call: its operation, arguments, local variables, and     *)
(* results.                                                                *)
(***************************************************************************)
NoRef == [rg |-> <<>>, kind |-> "none", name |-> <<>>]

IdleFrame ==
    [op |-> "none", pc |-> "idle", g |-> NoGroup, ret |-> FALSE,
     ref |-> NoRef, vmType |-> "", vmsPoolMap |-> {}, resourceID |-> NoRef,
     i |-> 0, retGroup |-> NoGroup, err |-> "nil",
     nodesCalled |-> <<>>, ssListed |-> FALSE,
     prev |-> "none", sku |-> <<>>, remote |-> <<>>, out |-> <<>>,
     deadline |-> FALSE]

CanCall(t) == frame[t].pc \in {"idle", "ret"}

\* a mutex whose Lock() does not wait for the readers
CanLockDespiteReaders == TRUE

\* d.mutex.Lock() succeeds when nobody holds the mutex; d.mutex.RLock() when no
\* writer does.  Writers hold it for one whole action, so readers never wait.
CanLock == rlock = {}

Lookups == {"FindForInstance", "HasInstance"}

\* the callers other than those in `callers` take the result of their returned
\* lookup before the registrations or the remote data change under it
TakeResults(f, callers) ==
    [t \in Threads |-> IF t \notin callers /\ f[t].op \in Lookups /\ f[t].pc = "ret"
                       THEN IdleFrame ELSE f[t]]

(***************************************************************************)
(* Register (lines 52-70).                                                 *)
(***************************************************************************)
\* the index of the first registered group whose id matches, or 0
MatchIndex(h, r, g) ==
    IF \E i \in 1..r.len : EqualFold(h[r.arr][i].id, g.id)
    THEN CHOOSE i \in 1..r.len :
            /\ EqualFold(h[r.arr][i].id, g.id)
            /\ \A j \in 1..(i - 1) : ~EqualFold(h[r.arr][j].id, g.id)
    ELSE 0

SameSizesMaxOnly(existing, g) == existing.max = g.max

SameSizes(existing, g) == existing.min = g.min /\ existing.max = g.max

RegisterResultNoSameCheck(h, r, g) ==
    LET i == MatchIndex(h, r, g)
    IN  IF i # 0
        THEN [heap |-> SetIndex(h, r, i, g), slice |-> r, ret |-> TRUE]
        ELSE LET a == AppendSlice(h, r, g)
             IN  [heap |-> a.heap, slice |-> a.slice, ret |-> TRUE]

RegisterResult(h, r, g) ==
    LET i == MatchIndex(h, r, g)
    IN  IF i # 0
        THEN IF SameSizes(h[r.arr][i], g)
             THEN [heap |-> h, slice |-> r, ret |-> FALSE]
             ELSE [heap |-> SetIndex(h, r, i, g), slice |-> r, ret |-> TRUE]
        ELSE LET a == AppendSlice(h, r, g)
             IN  [heap |-> a.heap, slice |-> a.slice, ret |-> TRUE]

Register(t, g) ==
    /\ CanCall(t)
    /\ CanLock
    /\ LET res == RegisterResult(heap, reg, g)
       IN  /\ reg' = res.slice
           /\ heap' = Collect(res.heap, Roots(res.slice, held))
           /\ frame' = [TakeResults(frame, {t}) EXCEPT ![t] =
                           [IdleFrame EXCEPT !.op = "Register", !.pc = "ret",
                                             !.g = g, !.ret = res.ret]]
    /\ UNCHANGED <<held, rlock, members, remoteScaleSets, remotePools,
                   enableVMsAgentPool, otherVars>>

(***************************************************************************)
(* Unregister (lines 73-89).                                               *)
(***************************************************************************)
RECURSIVE UnregisterLoop(_, _, _, _, _, _)
UnregisterLoop(h, r, g, k, updated, changed) ==
    IF k > r.len
    THEN [heap |-> h, slice |-> updated, ret |-> changed]
    ELSE LET existing == h[r.arr][k]
         IN  IF EqualFold(existing.id, g.id)
             THEN UnregisterLoop(h, r, g, k + 1, updated, TRUE)
             ELSE LET a == AppendSlice(h, updated, existing)
                  IN  UnregisterLoop(a.heap, r, g, k + 1, a.slice, changed)

RECURSIVE UnregisterLoopFirstOnly(_, _, _, _, _, _)
UnregisterLoopFirstOnly(h, r, g, k, updated, changed) ==
    IF k > r.len
    THEN [heap |-> h, slice |-> updated, ret |-> changed]
    ELSE LET existing == h[r.arr][k]
         IN  IF EqualFold(existing.id, g.id)
             THEN [heap |-> h, slice |-> updated, ret |-> TRUE]
             ELSE LET a == AppendSlice(h, updated, existing)
                  IN  UnregisterLoopFirstOnly(a.heap, r, g, k + 1, a.slice, changed)

UnregisterResultFirstOnly(h, r, g) ==
    LET m == MakeSlice(h, r.len)
    IN  UnregisterLoopFirstOnly(m.heap, r, g, 1, m.slice, FALSE)

UnregisterResult(h, r, g) ==
    LET m == MakeSlice(h, r.len)
    IN  UnregisterLoop(m.heap, r, g, 1, m.slice, FALSE)

Unregister(t, g) ==
    /\ CanCall(t)
    /\ CanLock
    /\ LET res == UnregisterResult(heap, reg, g)
       IN  /\ reg' = res.slice
           /\ heap' = Collect(res.heap, Roots(res.slice, held))
           /\ frame' = [TakeResults(frame, {t}) EXCEPT ![t] =
                           [IdleFrame EXCEPT !.op = "Unregister", !.pc = "ret",
                                             !.g = g, !.ret = res.ret]]
    /\ UNCHANGED <<held, rlock, members, remoteScaleSets, remotePools,
                   enableVMsAgentPool, otherVars>>

(***************************************************************************)
(* Register and Unregister of parallel callers: a call first waits at      *)
(* d.mutex.Lock() (lines 53, 74), then runs its body and unlocks.          *)
(***************************************************************************)
WriterCall(t, op, g) ==
    /\ CanCall(t)
    /\ frame' = [frame EXCEPT ![t] = [IdleFrame EXCEPT !.op = op, !.pc = "lock_wait", !.g = g]]
    /\ UNCHANGED <<heap, reg, held, rlock, members, remoteScaleSets, remotePools,
                   enableVMsAgentPool, otherVars>>

RegisterCall(t, g) == WriterCall(t, "Register", g)

UnregisterCall(t, g) == WriterCall(t, "Unregister", g)

\* the waiting call gets the mutex, runs and returns
WriterLocked(t) ==
    /\ frame[t].pc = "lock_wait"
    /\ CanLock
    /\ LET res == IF frame[t].op = "Register"
                  THEN RegisterResult(heap, reg, frame[t].g)
                  ELSE UnregisterResult(heap, reg, frame[t].g)
       IN  /\ reg' = res.slice
           /\ heap' = Collect(res.heap, Roots(res.slice, held))
           /\ frame' = [TakeResults(frame, {t}) EXCEPT ![t] =
                           [frame[t] EXCEPT !.pc = "ret", !.ret = res.ret]]
    /\ UNCHANGED <<held, rlock, members, remoteScaleSets, remotePools,
                   enableVMsAgentPool, otherVars>>

(***************************************************************************)
(* getRegisteredNodeGroups (lines 92-96): returns the slice header itself. *)
(***************************************************************************)
GetRegisteredNodeGroups(t) ==
    /\ CanCall(t)
    /\ held' = [held EXCEPT ![t] = reg]
    /\ heap' = Collect(heap, Roots(reg, held'))
    /\ frame' = [frame EXCEPT ![t] =
                    [IdleFrame EXCEPT !.op = "getRegisteredNodeGroups", !.pc = "ret"]]
    /\ UNCHANGED <<reg, rlock, members, remoteScaleSets, remotePools,
                   enableVMsAgentPool, otherVars>>

\* the caller drops the slice it was given
DropHeld(t) ==
    /\ held[t] # EmptySlice
    /\ held' = [held EXCEPT ![t] = EmptySlice]
    /\ heap' = Collect(heap, Roots(reg, held'))
    /\ UNCHANGED <<reg, frame, rlock, members, remoteScaleSets, remotePools,
                   enableVMsAgentPool, otherVars>>

(***************************************************************************)
(* Resource ids.  An id is its resource group, the shape of its path below *)
(* the provider (a plain virtual machine, a member of a scale set, or no   *)
(* fleet resource id at all) and its name.                                 *)
(***************************************************************************)
ResourceId(rg, kind, name) == [rg |-> rg, kind |-> kind, name |-> name]

\* convertResourceGroupNameToLower: the id with its resource group in lower
\* case, or an error when the id is no fleet resource id
CanParse(id) == id.kind \in {"vm", "vmssvm"}

ConvertResourceGroupNameToLower(id) == [id EXCEPT !.rg = LowerStr(id.rg)]

\* virtualMachineRE.Match
VirtualMachineRE(id) == id.kind = "vm"

IdEqualExact(a, b) == a = b

\* strings.EqualFold on two ids
IdEqualFold(a, b) ==
    /\ a.kind = b.kind
    /\ EqualFold(a.rg, b.rg)
    /\ EqualFold(a.name, b.name)

(***************************************************************************)
(* The remote API and the listing accessors (lines 98-178).                *)
(***************************************************************************)
VMTypeVMSS == "vmss"
VMTypeStandard == "standard"
VMTypeVMs == "vms"

Uniform == "Uniform"
Flexible == "Flexible"

NoMap == <<>>

\* getScaleSets: the listed scale sets by name, the empty map when the listing
\* fails
GetScaleSets(remote) ==
    IF remote.err
    THEN NoMap
    ELSE [n \in {remote.sets[k].name : k \in 1..Len(remote.sets)} |->
            LET last == CHOOSE k \in 1..Len(remote.sets) :
                            /\ remote.sets[k].name = n
                            /\ \A j \in (k + 1)..Len(remote.sets) : remote.sets[j].name # n
            IN  remote.sets[last]]

AgentPoolTypeVirtualMachines == "VirtualMachines"
AgentPoolTypeVMSS == "VirtualMachineScaleSets"

\* a pager loop that keeps the pools of the pages before the failed one
RECURSIVE FetchPagesKeepsEarlier(_, _)
FetchPagesKeepsEarlier(pages, aps) ==
    IF pages = <<>>
    THEN [err |-> FALSE, aps |-> aps]
    ELSE IF pages[1].err
         THEN [err |-> FALSE, aps |-> aps]
         ELSE FetchPagesKeepsEarlier(Tail(pages), aps \o pages[1].value)

\* the pools of all pages, or an error when a page fails
RECURSIVE FetchPages(_, _)
FetchPages(pages, aps) ==
    IF pages = <<>>
    THEN [err |-> FALSE, aps |-> aps]
    ELSE IF pages[1].err
         THEN [err |-> TRUE, aps |-> <<>>]
         ELSE FetchPages(Tail(pages), aps \o pages[1].value)

\* a getVMsPoolMap that reports a pool when the listing fails
GetVMsPoolMapFailedAsSome(enabled, pages) ==
    IF ~enabled
    THEN {}
    ELSE LET got == FetchPages(pages, <<>>)
         IN  IF got.err
             THEN {"unknown"}
             ELSE {got.aps[k].name : k \in
                      {j \in 1..Len(got.aps) : got.aps[j].type = AgentPoolTypeVirtualMachines}}

\* getVMsPoolMap: the names of the listed pools of type VirtualMachines
GetVMsPoolMap(enabled, pages) ==
    IF ~enabled
    THEN {}
    ELSE LET got == FetchPages(pages, <<>>)
         IN  IF got.err
             THEN {}
             ELSE {got.aps[k].name : k \in
                      {j \in 1..Len(got.aps) : got.aps[j].type = AgentPoolTypeVirtualMachines}}

NoTag == "nil"

\* the pool a listed virtual machine is grouped under (lines 130-140)
PoolOf(vm) ==
    IF ~vm.tagged THEN NoTag
    ELSE IF vm.pool # NoTag THEN vm.pool ELSE vm.legacy

\* getVirtualMachines: the listed virtual machines by pool, in listing order
GetVirtualMachines(remote) ==
    IF remote.err
    THEN NoMap
    ELSE [n \in {PoolOf(remote.vms[k]) : k \in 1..Len(remote.vms)} \ {NoTag} |->
            SelectSeq(remote.vms, LAMBDA vm : PoolOf(vm) = n)]

\* extractAutoscalingOptionsFromScaleSetTags: the option tags by option name
ExtractAutoscalingOptionsFromScaleSetTags(tags) ==
    [n \in {k.name : k \in {x \in DOMAIN tags : x.option}} |->
        tags[[option |-> TRUE, name |-> n]]]

\* getAutoscalingOptions (lines 181-187)
GetAutoscalingOptions(scaleSets, name) ==
    IF name \in DOMAIN scaleSets
    THEN ExtractAutoscalingOptionsFromScaleSetTags(scaleSets[name].tags)
    ELSE NoMap

\* the contexts the accessors make their remote calls under
GetContextWithTimeout == [deadline |-> TRUE]

GetContextWithCancel == [deadline |-> FALSE]

ContextOf(op) ==
    IF op = "getVirtualMachines" THEN GetContextWithCancel ELSE GetContextWithTimeout

\* the remote calls an accessor makes and how each ends: one List, or the
\* pager's NextPage up to the first page that fails
RemoteCalls(op) ==
    CASE op = "getVirtualMachines" -> <<IF remoteVMs.err THEN "failed" ELSE "ok">>
      [] op = "getVMsPoolMap" ->
            LET bad == {k \in 1..Len(remotePools) : remotePools[k].err}
                n == IF bad = {} THEN Len(remotePools)
                     ELSE CHOOSE k \in bad : \A j \in bad : k <= j
            IN  [k \in 1..n |-> IF remotePools[k].err THEN "failed" ELSE "ok"]
      [] OTHER -> <<IF remoteScaleSets.err THEN "failed" ELSE "ok">>

\* what an accessor returns from the remote data as it is now
ListResult(op, name) ==
    CASE op = "getScaleSets" -> GetScaleSets(remoteScaleSets)
      [] op = "getVirtualMachines" -> GetVirtualMachines(remoteVMs)
      [] op = "getVMsPoolMap" ->
            [n \in GetVMsPoolMap(TRUE, remotePools) |-> AgentPoolTypeVirtualMachines]
      [] op = "getAutoscalingOptions" ->
            GetAutoscalingOptions(GetScaleSets(remoteScaleSets), name)

\* an accessor is called: its remote call is in flight under its context, or,
\* for the pools of a disabled feature, it has returned (line 150)
ListCall(t, op, name) ==
    /\ CanCall(t)
    /\ LET f == [IdleFrame EXCEPT !.op = op, !.ref = [NoRef EXCEPT !.name = name],
                                  !.out = IF frame[t].op = op THEN frame[t].out ELSE <<>>,
                                  !.prev = IF frame[t].op = op THEN "held" ELSE "none"]
       IN  frame' = [frame EXCEPT ![t] =
                        IF op = "getVMsPoolMap" /\ ~enableVMsAgentPool
                        THEN [f EXCEPT !.pc = "ret", !.out = NoMap,
                                       !.prev = IF f.prev = "none" THEN "none"
                                                ELSE IF f.out = NoMap THEN "same"
                                                ELSE "changed"]
                        ELSE [f EXCEPT !.pc = "wait",
                                       !.deadline = ContextOf(op).deadline]]
    /\ UNCHANGED <<heap, reg, held, rlock, members, remoteScaleSets, remotePools,
                   enableVMsAgentPool, otherVars>>

GetScaleSetsCall(t) == ListCall(t, "getScaleSets", <<>>)

GetVirtualMachinesCall(t) == ListCall(t, "getVirtualMachines", <<>>)

GetVMsPoolMapCall(t) == ListCall(t, "getVMsPoolMap", <<>>)

GetAutoscalingOptionsCall(t, name) == ListCall(t, "getAutoscalingOptions", name)

\* the accessor returns `out` after the remote calls `calls`
ListReturn(f, out, calls) ==
    [f EXCEPT !.pc = "ret", !.out = out, !.remote = calls,
              !.prev = IF f.prev = "none" THEN "none"
                       ELSE IF f.out = out THEN "same" ELSE "changed"]

\* an accessor that returns what its caller's last call returned
RemoteRespondsFromMemo(t) ==
    /\ frame[t].pc = "wait"
    /\ frame' = [frame EXCEPT ![t] =
                    ListReturn(frame[t],
                               IF frame[t].prev = "held" THEN frame[t].out
                               ELSE ListResult(frame[t].op, frame[t].ref.name),
                               RemoteCalls(frame[t].op))]
    /\ UNCHANGED <<heap, reg, held, rlock, members, remoteScaleSets, remotePools,
                   enableVMsAgentPool, otherVars>>

\* the remote API answers the call in flight
RemoteResponds(t) ==
    /\ frame[t].pc = "wait"
    /\ frame' = [frame EXCEPT ![t] =
                    ListReturn(frame[t], ListResult(frame[t].op, frame[t].ref.name),
                               RemoteCalls(frame[t].op))]
    /\ UNCHANGED <<heap, reg, held, rlock, members, remoteScaleSets, remotePools,
                   enableVMsAgentPool, otherVars>>

\* the context's deadline passes before the remote API answers: the call
\* fails and the accessor returns the empty map
DeadlineExpires(t) ==
    /\ frame[t].pc = "wait"
    /\ frame[t].deadline
    /\ frame' = [frame EXCEPT ![t] = ListReturn(frame[t], NoMap, <<"deadline exceeded">>)]
    /\ UNCHANGED <<heap, reg, held, rlock, members, remoteScaleSets, remotePools,
                   enableVMsAgentPool, otherVars>>

(***************************************************************************)
(* FindForInstance (lines 190-242).                                        *)
(***************************************************************************)
Returned(f, group, err) == [f EXCEPT !.pc = "ret", !.retGroup = group, !.err = err]

AllUniformAndSome(scaleSets) ==
    /\ scaleSets # NoMap
    /\ \A n \in DOMAIN scaleSets : scaleSets[n].mode # Flexible

AnyUniform(scaleSets) ==
    scaleSets = NoMap \/ \E n \in DOMAIN scaleSets : scaleSets[n].mode # Flexible

AllUniform(scaleSets) == \A n \in DOMAIN scaleSets : scaleSets[n].mode # Flexible

\* line 191: the pool map is fetched before the mutex is taken
FindCall(t, ref, vmType) ==
    /\ CanCall(t)
    /\ frame' = [frame EXCEPT ![t] =
                    [IdleFrame EXCEPT !.op = "FindForInstance", !.pc = "find_lock",
                                      !.ref = ref, !.vmType = vmType,
                                      !.vmsPoolMap =
                                          GetVMsPoolMap(enableVMsAgentPool, remotePools)]]
    /\ UNCHANGED <<heap, reg, held, rlock, members, remoteScaleSets, remotePools,
                   enableVMsAgentPool, otherVars>>

\* line 202: the scale sets are listed for a scale-set lookup with no VMs pool
NeedsScaleSetsIgnoringPools(f) == f.vmType = VMTypeVMSS

NeedsScaleSets(f) == f.vmType = VMTypeVMSS /\ f.vmsPoolMap = {}

\* lines 219-220: a standard lookup of an id that is no plain virtual machine
StandardSkipsPlainVM(f, resourceID) ==
    f.vmType = VMTypeStandard /\ VirtualMachineRE(resourceID)

StandardSkips(f, resourceID) ==
    f.vmType = VMTypeStandard /\ ~VirtualMachineRE(resourceID)

\* lines 192-224: under the read lock, the id is normalised and the two
\* filters applied; the frame the call goes on with
FilterFrame(f, remote, regLen) ==
    IF ~CanParse(f.ref)
    THEN Returned(f, NoGroup, "InvalidReference")
    ELSE LET resourceID == ConvertResourceGroupNameToLower(f.ref)
             f1 == [f EXCEPT !.resourceID = resourceID, !.ssListed = NeedsScaleSets(f)]
         IN  IF /\ NeedsScaleSets(f)
                /\ AllUniform(GetScaleSets(remote))
                /\ VirtualMachineRE(resourceID)
             THEN Returned(f1, NoGroup, "nil")
             ELSE IF StandardSkips(f, resourceID)
                  THEN Returned(f1, NoGroup, "nil")
                  ELSE IF regLen = 0
                       THEN Returned(f1, NoGroup, "nil")
                       ELSE [f1 EXCEPT !.pc = "find_scan", !.i = 1]

FindFilter(t) ==
    /\ frame[t].pc = "find_lock"
    /\ LET f == FilterFrame(frame[t], remoteScaleSets, reg.len)
       IN  /\ frame' = [frame EXCEPT ![t] = f]
           /\ rlock' = IF f.pc = "find_scan" THEN rlock \cup {t} ELSE rlock
    /\ UNCHANGED <<heap, reg, held, members, remoteScaleSets, remotePools,
                   enableVMsAgentPool, otherVars>>

Lists(listing, resourceID) ==
    /\ ~listing.err
    /\ \E k \in 1..Len(listing.ids) : IdEqualFold(listing.ids[k], resourceID)

\* a loop that returns the error of a failed Nodes() instead of going on
ScanFrameSurfacesError(f, ng, listing, regLen) ==
    LET f1 == [f EXCEPT !.nodesCalled = Append(f.nodesCalled, ng)]
    IN  IF listing.err
        THEN Returned(f1, NoGroup, "NodesFailed")
        ELSE IF Lists(listing, f.resourceID)
             THEN Returned(f1, ng, "nil")
             ELSE IF f.i = regLen
                  THEN Returned(f1, NoGroup, "nil")
                  ELSE [f1 EXCEPT !.i = f.i + 1]

\* a loop that goes on after a match and returns the last group that matched
ScanFrameLastMatch(f, ng, listing, regLen) ==
    LET f1 == [f EXCEPT !.nodesCalled = Append(f.nodesCalled, ng)]
        g == IF Lists(listing, f.resourceID) THEN ng ELSE f.retGroup
    IN  IF f.i = regLen
        THEN Returned(f1, g, "nil")
        ELSE [f1 EXCEPT !.i = f.i + 1, !.retGroup = g]

\* lines 227-241: one round of the loop over the registered groups
ScanFrame(f, ng, listing, regLen) ==
    LET f1 == [f EXCEPT !.nodesCalled = Append(f.nodesCalled, ng)]
    IN  IF Lists(listing, f.resourceID)
        THEN Returned(f1, ng, "nil")
        ELSE IF f.i = regLen
             THEN Returned(f1, NoGroup, "nil")
             ELSE [f1 EXCEPT !.i = f.i + 1]

FindScan(t) ==
    /\ frame[t].pc = "find_scan"
    /\ LET ng == heap[reg.arr][frame[t].i]
           f == ScanFrame(frame[t], ng, members[ng], reg.len)
       IN  /\ frame' = [frame EXCEPT ![t] = f]
           /\ rlock' = IF f.pc = "find_scan" THEN rlock ELSE rlock \ {t}
    /\ UNCHANGED <<heap, reg, held, members, remoteScaleSets, remotePools,
                   enableVMsAgentPool, otherVars>>

(***************************************************************************)
(* HasInstance (lines 245-268).                                            *)
(***************************************************************************)
\* a HasInstance that reports false for an id it found
HasFoundReportsFalse(f) == [f EXCEPT !.pc = "ret", !.ret = FALSE, !.err = "nil"]

\* lines 261-263
HasFound(f) == [f EXCEPT !.pc = "ret", !.ret = TRUE, !.err = "nil"]

HasNotFoundNoError(f) == [f EXCEPT !.pc = "ret", !.ret = FALSE, !.err = "nil"]

\* line 267
HasNotFound(f) == [f EXCEPT !.pc = "ret", !.ret = FALSE, !.err = "NotImplemented"]

\* lines 246-253: the id is normalised, then the read lock taken
HasFrame(providerID, regLen) ==
    LET f == [IdleFrame EXCEPT !.op = "HasInstance", !.ref = providerID]
    IN  IF ~CanParse(providerID)
        THEN [f EXCEPT !.pc = "ret", !.ret = FALSE, !.err = "InvalidReference"]
        ELSE LET f1 == [f EXCEPT !.resourceID = ConvertResourceGroupNameToLower(providerID)]
             IN  IF regLen = 0
                 THEN HasNotFound(f1)
                 ELSE [f1 EXCEPT !.pc = "has_scan", !.i = 1]

HasCall(t, providerID) ==
    /\ CanCall(t)
    /\ LET f == HasFrame(providerID, reg.len)
       IN  /\ frame' = [frame EXCEPT ![t] = f]
           /\ rlock' = IF f.pc = "has_scan" THEN rlock \cup {t} ELSE rlock
    /\ UNCHANGED <<heap, reg, held, members, remoteScaleSets, remotePools,
                   enableVMsAgentPool, otherVars>>

\* a loop that a failed Nodes() ends
HasScanFrameStopsAtError(f, ng, listing, regLen) ==
    LET f1 == [f EXCEPT !.nodesCalled = Append(f.nodesCalled, ng)]
    IN  IF listing.err
        THEN HasNotFound(f1)
        ELSE IF Lists(listing, f.resourceID)
             THEN HasFound(f1)
             ELSE IF f.i = regLen
                  THEN HasNotFound(f1)
                  ELSE [f1 EXCEPT !.i = f.i + 1]

\* lines 255-267: one round of the loop over the registered groups
HasScanFrame(f, ng, listing, regLen) ==
    LET f1 == [f EXCEPT !.nodesCalled = Append(f.nodesCalled, ng)]
    IN  IF Lists(listing, f.resourceID)
        THEN HasFound(f1)
        ELSE IF f.i = regLen
             THEN HasNotFound(f1)
             ELSE [f1 EXCEPT !.i = f.i + 1]

HasScan(t) ==
    /\ frame[t].pc = "has_scan"
    /\ LET ng == heap[reg.arr][frame[t].i]
           f == HasScanFrame(frame[t], ng, members[ng], reg.len)
       IN  /\ frame' = [frame EXCEPT ![t] = f]
           /\ rlock' = IF f.pc = "has_scan" THEN rlock ELSE rlock \ {t}
    /\ UNCHANGED <<heap, reg, held, members, remoteScaleSets, remotePools,
                   enableVMsAgentPool, otherVars>>

(***************************************************************************)
(* HasVMSKUs and GetSKU (lines 271-291).  The SKU listing the remote API   *)
(* answers NewCache with is an input of the call.                          *)
(***************************************************************************)
VirtualMachines == "virtualMachines"

Sku(name, type, location) == [name |-> name, type |-> type, location |-> location]

NoSku == Sku(<<>>, "", "")

\* lines 276-290: the SKU of that name among the location's virtual-machine
\* SKUs of a table built for this call
GetSKUFrame(skuName, location, listing) ==
    LET f == [IdleFrame EXCEPT !.op = "GetSKU", !.pc = "ret", !.sku = NoSku]
    IN  IF location = ""
        THEN [f EXCEPT !.err = "location not specified"]
        ELSE LET f1 == [f EXCEPT !.remote = <<"ResourceSkus.List">>]
             IN  IF listing.err
                 THEN [f1 EXCEPT !.err = "NewCacheFailed"]
                 ELSE LET cache == {x \in listing.skus : x.location = location}
                          found == {x \in cache : /\ x.type = VirtualMachines
                                                  /\ EqualFold(x.name, skuName)}
                      IN  IF Cardinality(found) = 1
                          THEN [f1 EXCEPT !.sku = CHOOSE x \in found : TRUE]
                          ELSE [f1 EXCEPT !.err = "SKUNotFound"]

GetSKU(t, skuName, location, listing) ==
    /\ CanCall(t)
    /\ frame' = [frame EXCEPT ![t] = GetSKUFrame(skuName, location, listing)]
    /\ UNCHANGED <<heap, reg, held, rlock, members, remoteScaleSets, remotePools,
                   enableVMsAgentPool, otherVars>>

\* what the caller remembers of its last call when it asks HasVMSKUs
SKUOutcome(f) ==
    IF f.op # "GetSKU" THEN "none"
    ELSE IF f.err = "nil" THEN "sku" ELSE "noSku"

\* an engine that reports the table of a GetSKU that went well
HasVMSKUsAfterGetSKU == \E t \in Threads : SKUOutcome(frame[t]) = "sku"

\* line 272
HasVMSKUsValue == FALSE

\* a HasVMSKUs that lets go of the registered groups
HasVMSKUsDropsGroups(t) ==
    /\ CanCall(t)
    /\ CanLock
    /\ reg' = EmptySlice
    /\ heap' = Collect(heap, Roots(EmptySlice, held))
    /\ frame' = [frame EXCEPT ![t] =
                    [IdleFrame EXCEPT !.op = "HasVMSKUs", !.pc = "ret",
                                      !.ret = HasVMSKUsValue,
                                      !.prev = SKUOutcome(frame[t])]]
    /\ UNCHANGED <<held, rlock, members, remoteScaleSets, remotePools,
                   enableVMsAgentPool, otherVars>>

HasVMSKUs(t) ==
    /\ CanCall(t)
    /\ frame' = [frame EXCEPT ![t] =
                    [IdleFrame EXCEPT !.op = "HasVMSKUs", !.pc = "ret",
                                      !.ret = HasVMSKUsValue,
                                      !.prev = SKUOutcome(frame[t])]]
    /\ UNCHANGED <<heap, reg, held, rlock, members, remoteScaleSets, remotePools,
                   enableVMsAgentPool, otherVars>>

(***************************************************************************)
(* regenerate and Cleanup (lines 294-302).                                 *)
(***************************************************************************)
Regenerate(t) ==
    /\ CanCall(t)
    /\ frame' = [frame EXCEPT ![t] =
                    [IdleFrame EXCEPT !.op = "regenerate", !.pc = "ret", !.err = "nil"]]
    /\ UNCHANGED <<heap, reg, held, rlock, members, remoteScaleSets, remotePools,
                   enableVMsAgentPool, otherVars>>

\* a Cleanup that lets go of the registered groups
CleanupDropsGroups(t) ==
    /\ CanCall(t)
    /\ CanLock
    /\ reg' = EmptySlice
    /\ heap' = Collect(heap, Roots(EmptySlice, held))
    /\ frame' = [frame EXCEPT ![t] = [IdleFrame EXCEPT !.op = "Cleanup", !.pc = "ret"]]
    /\ UNCHANGED <<held, rlock, members, remoteScaleSets, remotePools,
                   enableVMsAgentPool, otherVars>>

Cleanup(t) ==
    /\ CanCall(t)
    /\ frame' = [frame EXCEPT ![t] = [IdleFrame EXCEPT !.op = "Cleanup", !.pc = "ret"]]
    /\ UNCHANGED <<heap, reg, held, rlock, members, remoteScaleSets, remotePools,
                   enableVMsAgentPool, otherVars>>

\* the outcome of a returned lookup, as its caller remembers it: a miss is a
\* search that listed a registered group and found no owner
Outcome(f) ==
    IF f.retGroup = NoGroup /\ f.err = "nil" /\ f.nodesCalled # <<>>
    THEN "miss" ELSE "other"

\* a repeated call that answers a remembered miss without searching
FindAgainFromMemo(t) ==
    /\ frame[t].op = "FindForInstance"
    /\ frame[t].pc = "ret"
    /\ LET f == [IdleFrame EXCEPT !.op = "FindForInstance", !.pc = "find_lock",
                                  !.ref = frame[t].ref, !.vmType = frame[t].vmType,
                                  !.vmsPoolMap =
                                      GetVMsPoolMap(enableVMsAgentPool, remotePools),
                                  !.prev = Outcome(frame[t])]
       IN  frame' = [frame EXCEPT ![t] =
                        IF f.prev = "miss" THEN Returned(f, NoGroup, "nil") ELSE f]
    /\ UNCHANGED <<heap, reg, held, rlock, members, remoteScaleSets, remotePools,
                   enableVMsAgentPool, otherVars>>

\* the caller calls FindForInstance again with the arguments of the call that
\* just returned (line 191 again: the engine holds nothing of the earlier call)
FindAgain(t) ==
    /\ frame[t].op = "FindForInstance"
    /\ frame[t].pc = "ret"
    /\ frame' = [frame EXCEPT ![t] =
                    [IdleFrame EXCEPT !.op = "FindForInstance", !.pc = "find_lock",
                                      !.ref = frame[t].ref, !.vmType = frame[t].vmType,
                                      !.vmsPoolMap =
                                          GetVMsPoolMap(enableVMsAgentPool, remotePools),
                                      !.prev = Outcome(frame[t])]]
    /\ UNCHANGED <<heap, reg, held, rlock, members, remoteScaleSets, remotePools,
                   enableVMsAgentPool, otherVars>>

(***************************************************************************)
(* The environment: the remote data changes between lookups.               *)
(***************************************************************************)
NoLookupInFlight == \A t \in Threads : CanCall(t)

SetMembers(g, listing) ==
    /\ NoLookupInFlight
    /\ members[g] # listing
    /\ members' = [members EXCEPT ![g] = listing]
    /\ frame' = TakeResults(frame, {})
    /\ UNCHANGED <<heap, reg, held, rlock, remoteScaleSets, remotePools,
                   enableVMsAgentPool, otherVars>>

\* a group's member listing changes while a caller still holds the result of
\* its last lookup
MembersChange(g, listing) ==
    /\ NoLookupInFlight
    /\ members[g] # listing
    /\ members' = [members EXCEPT ![g] = listing]
    /\ UNCHANGED <<heap, reg, held, frame, rlock, remoteScaleSets, remotePools,
                   enableVMsAgentPool, otherVars>>

SetScaleSets(remote) ==
    /\ NoLookupInFlight
    /\ remoteScaleSets # remote
    /\ remoteScaleSets' = remote
    /\ frame' = TakeResults(frame, {})
    /\ UNCHANGED <<heap, reg, held, rlock, members, remotePools, enableVMsAgentPool, otherVars>>

SetVMs(remote) ==
    /\ NoLookupInFlight
    /\ remoteVMs # remote
    /\ remoteVMs' = remote
    /\ UNCHANGED <<heap, reg, held, frame, rlock, members, remoteScaleSets,
                   remotePools, enableVMsAgentPool, snapshot, now, instanceCache>>

SetPools(pages) ==
    /\ NoLookupInFlight
    /\ remotePools # pages
    /\ remotePools' = pages
    /\ frame' = TakeResults(frame, {})
    /\ UNCHANGED <<heap, reg, held, rlock, members, remoteScaleSets,
                   enableVMsAgentPool, otherVars>>

\* no virtual machine in the resource group
NoVMs == [err |-> FALSE, vms |-> <<>>]

\* the cached engine's Snapshot before its first refresh
NewSnapshot ==
    [scaleSets |-> NoMap, virtualMachines |-> NoMap, vmsPoolMap |-> {},
     instanceToNodeGroup |-> NoMap, unownedInstances |-> {}, lastRefresh |-> 0]

\* a group's instance cache before its first fetch
NewInstanceCache ==
    [list |-> <<>>, version |-> 0, lastRefresh |-> 0, jitter |-> 0,
     invalidated |-> FALSE, owner |-> "none"]

(***************************************************************************)
(* newDirectResourceCache (lines 43-49).                                   *)
(***************************************************************************)
InitCache ==
    /\ heap = [a \in ArrIds |-> <<>>]
    /\ reg = EmptySlice
    /\ held = [t \in Threads |-> EmptySlice]
    /\ frame = [t \in Threads |-> IdleFrame]
    /\ rlock = {}
    /\ remoteVMs = NoVMs
    /\ snapshot = NewSnapshot
    /\ now = 0
    /\ instanceCache = NewInstanceCache

NoListing == [err |-> FALSE, ids |-> <<>>]

NoScaleSets == [err |-> FALSE, sets |-> <<>>]

\* the registration calls of the node-group management test: no remote data
InitReg ==
    /\ InitCache
    /\ members = [g \in Groups |-> NoListing]
    /\ remoteScaleSets = NoScaleSets
    /\ remotePools = <<>>
    /\ enableVMsAgentPool = FALSE

\* the groups the second caller registers
SnapGroups ==
    {MockGroup(<<"p", "a">>), MockGroup(<<"p", "b">>),
     [id |-> <<"p", "a">>, min |-> MockMinSize, max |-> MockMaxSize + 1]}

GroupsOf(t) == IF t = "t1" THEN Groups ELSE SnapGroups

NextReg ==
    \/ \E t \in Threads : \E g \in GroupsOf(t) : Register(t, g)
    \/ \E t \in Threads : \E g \in GroupsOf(t) : Unregister(t, g)

\* registration calls from parallel callers, starting from an empty registry
SpecReg == InitReg /\ [][NextReg]_vars

NextSnap ==
    \/ \E g \in SnapGroups : Register("t2", g)
    \/ \E g \in SnapGroups : Unregister("t2", g)
    \/ GetRegisteredNodeGroups("t1")
    \/ DropHeld("t1")

\* one caller reads the registered list while another registers and unregisters
SpecSnap == InitReg /\ [][NextSnap]_vars

(***************************************************************************)
(* Lookups against remote data that changes between and during calls.      *)
(***************************************************************************)
RefVM == ResourceId(<<"R">>, "vm", <<"x">>)
RefVMSS == ResourceId(<<"R">>, "vmssvm", <<"x">>)
RefBad == ResourceId(<<>>, "other", <<"x">>)

Refs == {RefVM, RefVMSS, RefBad}

VMTypes == {VMTypeVMSS, VMTypeStandard, VMTypeVMs}

\* the ids a group may list: the two parseable references, in another case
MemberIds == {ResourceId(<<"r">>, "vm", <<"X">>), ResourceId(<<"r">>, "vmssvm", <<"X">>)}

RECURSIVE SeqsUpTo(_, _)
SeqsUpTo(S, n) ==
    IF n = 0 THEN {<<>>}
    ELSE LET shorter == SeqsUpTo(S, n - 1)
         IN  shorter \cup {Append(q, x) : q \in shorter, x \in S}

Listings ==
    {[err |-> TRUE, ids |-> <<>>]}
        \cup {[err |-> FALSE, ids |-> q] : q \in SeqsUpTo(MemberIds, MaxMembers)}

ScaleSet(name, mode) == [name |-> name, mode |-> mode]

ScaleSetListings ==
    {[err |-> TRUE, sets |-> <<>>],
     NoScaleSets,
     [err |-> FALSE, sets |-> <<ScaleSet("A", Uniform), ScaleSet("B", Uniform)>>],
     [err |-> FALSE, sets |-> <<ScaleSet("A", Uniform), ScaleSet("B", Flexible)>>]}

Pool(name, type) == [name |-> name, type |-> type]

Page(pools) == [err |-> FALSE, value |-> pools]

FailedPage == [err |-> TRUE, value |-> <<>>]

PoolListings ==
    {<<FailedPage>>,
     <<Page(<<Pool("vms", AgentPoolTypeVirtualMachines)>>)>>,
     <<Page(<<Pool("ss", AgentPoolTypeVMSS)>>)>>}

FindGroups == {MockGroup(<<"p", "a">>), MockGroup(<<"p", "b">>)}

InitFind ==
    /\ InitCache
    /\ members = [g \in Groups |-> NoListing]
    /\ remoteScaleSets = NoScaleSets
    /\ remotePools = <<FailedPage>>
    /\ enableVMsAgentPool = TRUE

NextFind ==
    \/ \E g \in FindGroups : Register("t1", g)
    \/ \E g \in FindGroups : Unregister("t1", g)
    \/ \E ref \in Refs, vmType \in VMTypes : FindCall("t1", ref, vmType)
    \/ FindFilter("t1")
    \/ FindScan("t1")
    \/ \E g \in FindGroups, listing \in Listings : SetMembers(g, listing)
    \/ \E remote \in ScaleSetListings : SetScaleSets(remote)
    \/ \E pages \in PoolListings : SetPools(pages)

SpecFind == InitFind /\ [][NextFind]_vars

(***************************************************************************)
(* The cached engine: one Snapshot, refreshed by regenerate when its TTL   *)
(* has passed or the refresh is forced.                                    *)
(***************************************************************************)
Tick ==
    /\ NoLookupInFlight
    /\ now < MaxNow
    /\ now' = now + 1
    /\ UNCHANGED <<heap, reg, held, frame, rlock, members, remoteScaleSets,
                   remotePools, enableVMsAgentPool, remoteVMs, snapshot,
                   instanceCache>>

\* invalidateCache: the last refresh is put so far back that the next
\* freshness check fails
InvalidateCache(t) ==
    /\ CanCall(t)
    /\ snapshot' = [snapshot EXCEPT !.lastRefresh = now - CachedTTL]
    /\ frame' = [frame EXCEPT ![t] =
                    [IdleFrame EXCEPT !.op = "azureCache.invalidateCache", !.pc = "ret"]]
    /\ UNCHANGED <<heap, reg, held, rlock, members, remoteScaleSets, remotePools,
                   enableVMsAgentPool, remoteVMs, now, instanceCache>>

\* the candidate snapshot a refresh cycle fills
Candidate ==
    [scaleSets |-> NoMap, virtualMachines |-> NoMap, vmsPoolMap |-> {},
     instanceToNodeGroup |-> NoMap]

\* regenerate, step 1: the freshness check; a cycle that is due starts with
\* the Snapshot as it is and an empty candidate
CachedRegenerateCall(t, forced) ==
    /\ CanCall(t)
    /\ frame' = [frame EXCEPT ![t] =
                    LET f == [IdleFrame EXCEPT !.op = "azureCache.regenerate",
                                               !.out = [before |-> snapshot,
                                                        cand |-> Candidate]]
                    IN  IF now - snapshot.lastRefresh < CachedTTL /\ ~forced
                        THEN [f EXCEPT !.pc = "ret"]
                        ELSE [f EXCEPT !.pc = "fetch_scale_sets"]]
    /\ UNCHANGED <<heap, reg, held, rlock, members, remoteScaleSets, remotePools,
                   enableVMsAgentPool, otherVars>>

\* a cycle that publishes what it had fetched when a fetch failed
OnFetchFailureKeepsFetched(f, snap) ==
    [frame |-> [f EXCEPT !.pc = "ret", !.err = "RemoteFetchFailure"],
     snapshot |-> [snap EXCEPT !.scaleSets = f.out.cand.scaleSets,
                               !.virtualMachines = f.out.cand.virtualMachines]]

\* step 3: a failed fetch ends the cycle with the error; the Snapshot stays
OnFetchFailure(f, snap) ==
    [frame |-> [f EXCEPT !.pc = "ret", !.err = "RemoteFetchFailure"],
     snapshot |-> snap]

\* step 4: every listed member id with the group that lists it, the later
\* registered group where two list the same id
InstanceIndex(registered) ==
    LET ListedBy(k) == {members[registered[k]].ids[j] :
                      j \in 1..Len(members[registered[k]].ids)}
    IN  [id \in UNION {ListedBy(k) : k \in 1..Len(registered)} |->
            registered[CHOOSE k \in 1..Len(registered) :
                          /\ id \in ListedBy(k)
                          /\ \A j \in (k + 1)..Len(registered) : id \notin ListedBy(j)]]

\* steps 2-5: one step of a refresh cycle, the frame and the Snapshot it leaves
RegenerateStep(f, snap, registered) ==
    LET go(pc, cand) == [frame |-> [f EXCEPT !.pc = pc, !.out.cand = cand],
                         snapshot |-> snap]
        cand == f.out.cand
    IN  CASE f.pc = "fetch_scale_sets" ->
                IF remoteScaleSets.err THEN OnFetchFailure(f, snap)
                ELSE go("fetch_vms",
                        [cand EXCEPT !.scaleSets = GetScaleSets(remoteScaleSets)])
          [] f.pc = "fetch_vms" ->
                IF remoteVMs.err THEN OnFetchFailure(f, snap)
                ELSE go("fetch_pools",
                        [cand EXCEPT !.virtualMachines = GetVirtualMachines(remoteVMs)])
          [] f.pc = "fetch_pools" ->
                IF ~enableVMsAgentPool THEN go("rebuild", cand)
                ELSE IF FetchPages(remotePools, <<>>).err THEN OnFetchFailure(f, snap)
                ELSE go("rebuild",
                        [cand EXCEPT !.vmsPoolMap = GetVMsPoolMap(TRUE, remotePools)])
          [] f.pc = "rebuild" ->
                IF \E k \in 1..Len(registered) : members[registered[k]].err
                THEN OnFetchFailure(f, snap)
                ELSE go("publish",
                        [cand EXCEPT !.instanceToNodeGroup = InstanceIndex(registered)])
          [] f.pc = "publish" ->
                [frame |-> [f EXCEPT !.pc = "ret"],
                 snapshot |-> [scaleSets |-> cand.scaleSets,
                               virtualMachines |-> cand.virtualMachines,
                               vmsPoolMap |-> cand.vmsPoolMap,
                               instanceToNodeGroup |-> cand.instanceToNodeGroup,
                               unownedInstances |-> {},
                               lastRefresh |-> now]]

CachedRegenerateStep(t) ==
    /\ frame[t].op = "azureCache.regenerate"
    /\ ~CanCall(t)
    /\ frame[t].pc = "publish" => CanLock
    /\ LET res == RegenerateStep(frame[t], snapshot, Elems(heap, reg))
       IN  /\ frame' = [frame EXCEPT ![t] = res.frame]
           /\ snapshot' = res.snapshot
    /\ UNCHANGED <<heap, reg, held, rlock, members, remoteScaleSets, remotePools,
                   enableVMsAgentPool, remoteVMs, now, instanceCache>>

\* FindForInstance of the cached engine (the algorithm's steps 1-6 on the
\* Snapshot): the frame it returns and the negative-result set it leaves
CachedFindFrame(f, snap, registered) ==
    LET none(g) == [frame |-> Returned(g, NoGroup, "nil"), snapshot |-> snap]
        resourceID == ConvertResourceGroupNameToLower(f.ref)
        f1 == [f EXCEPT !.resourceID = resourceID, !.vmsPoolMap = snap.vmsPoolMap]
        owners == {k \in 1..Len(registered) : Lists(members[registered[k]], resourceID)}
        first == CHOOSE k \in owners : \A j \in owners : k <= j
    IN  IF ~CanParse(f.ref)
        THEN [frame |-> Returned(f, NoGroup, "InvalidReference"), snapshot |-> snap]
        ELSE IF /\ f.vmType = VMTypeVMSS
                /\ snap.vmsPoolMap = {}
                /\ AllUniform(snap.scaleSets)
                /\ VirtualMachineRE(resourceID)
        THEN none(f1)
        ELSE IF StandardSkips(f, resourceID)
        THEN none(f1)
        ELSE IF resourceID \in snap.unownedInstances
        THEN none(f1)
        ELSE IF owners # {}
        THEN [frame |-> Returned([f1 EXCEPT !.nodesCalled = SubSeq(registered, 1, first)],
                                 registered[first], "nil"),
              snapshot |-> snap]
        ELSE [frame |-> Returned([f1 EXCEPT !.nodesCalled = registered], NoGroup, "nil"),
              snapshot |-> [snap EXCEPT !.unownedInstances = @ \cup {resourceID}]]

\* a lookup that searches the groups although the reference is in the
\* negative-result set
CachedFindSkipsMemo(t, ref, vmType) ==
    /\ CanCall(t)
    /\ LET res == CachedFindFrame([IdleFrame EXCEPT !.op = "azureCache.FindForInstance",
                                                    !.ref = ref, !.vmType = vmType],
                                  [snapshot EXCEPT !.unownedInstances = {}],
                                  Elems(heap, reg))
       IN  /\ frame' = [frame EXCEPT ![t] = res.frame]
           /\ snapshot' = [res.snapshot EXCEPT
                              !.unownedInstances = @ \cup snapshot.unownedInstances]
    /\ UNCHANGED <<heap, reg, held, rlock, members, remoteScaleSets, remotePools,
                   enableVMsAgentPool, remoteVMs, now, instanceCache>>

CachedFind(t, ref, vmType) ==
    /\ CanCall(t)
    /\ LET res == CachedFindFrame([IdleFrame EXCEPT !.op = "azureCache.FindForInstance",
                                                    !.ref = ref, !.vmType = vmType],
                                  snapshot, Elems(heap, reg))
       IN  /\ frame' = [frame EXCEPT ![t] = res.frame]
           /\ snapshot' = res.snapshot
    /\ UNCHANGED <<heap, reg, held, rlock, members, remoteScaleSets, remotePools,
                   enableVMsAgentPool, remoteVMs, now, instanceCache>>

(***************************************************************************)
(* The per-group instance cache: a member list with the time of its last   *)
(* fetch, refreshed by the first caller that finds it not Fresh while the  *)
(* others wait for that fetch.                                             *)
(***************************************************************************)
InstanceCacheState(c, clock) ==
    IF c.owner # "none" THEN "Refreshing"
    ELSE IF c.version = 0 THEN "Uninitialized"
    ELSE IF c.invalidated THEN "Invalidated"
    ELSE IF clock >= c.lastRefresh + InstanceTTL + c.jitter THEN "Stale"
    ELSE "Fresh"

\* an access to the group's members: a Fresh list is read as it is; otherwise
\* the caller goes for the exclusive refresh
NodesCall(t, g) ==
    /\ CanCall(t)
    /\ instanceCache.version < MaxRefreshes
    /\ LET st == InstanceCacheState(instanceCache, now)
           f == [IdleFrame EXCEPT !.op = "ScaleSet.Nodes", !.g = g, !.prev = st,
                                  !.i = instanceCache.version,
                                  !.out = [at |-> 0, list |-> <<>>]]
       IN  frame' = [frame EXCEPT ![t] =
                        IF st = "Fresh"
                        THEN [f EXCEPT !.pc = "ret", !.out.list = instanceCache.list]
                        ELSE [f EXCEPT !.pc = "refresh_wait"]]
    /\ UNCHANGED <<heap, reg, held, rlock, members, remoteScaleSets, remotePools,
                   enableVMsAgentPool, remoteVMs, snapshot, now, instanceCache>>

\* a caller that starts its own fetch whether or not one is in flight
NodesRefreshNoWait(t) ==
    /\ frame[t].op = "ScaleSet.Nodes"
    /\ frame[t].pc = "refresh_wait"
    /\ frame' = [frame EXCEPT ![t] = [@ EXCEPT !.pc = "refresh_fetch",
                                               !.ssListed = TRUE,
                                               !.out.at = instanceCache.version]]
    /\ instanceCache' = [instanceCache EXCEPT !.owner = t]
    /\ UNCHANGED <<heap, reg, held, rlock, members, remoteScaleSets, remotePools,
                   enableVMsAgentPool, remoteVMs, snapshot, now>>

\* the caller gets the exclusive refresh once no fetch is in flight: it reads
\* the list if that is Fresh by now and starts the one fetch otherwise
NodesRefresh(t) ==
    /\ frame[t].op = "ScaleSet.Nodes"
    /\ frame[t].pc = "refresh_wait"
    /\ instanceCache.owner = "none"
    /\ IF InstanceCacheState(instanceCache, now) = "Fresh"
       THEN /\ frame' = [frame EXCEPT ![t] = [@ EXCEPT !.pc = "ret",
                                                       !.out.list = instanceCache.list]]
            /\ UNCHANGED instanceCache
       ELSE /\ frame' = [frame EXCEPT ![t] = [@ EXCEPT !.pc = "refresh_fetch",
                                                       !.ssListed = TRUE,
                                                       !.out.at = instanceCache.version]]
            /\ instanceCache' = [instanceCache EXCEPT !.owner = t]
    /\ UNCHANGED <<heap, reg, held, rlock, members, remoteScaleSets, remotePools,
                   enableVMsAgentPool, remoteVMs, snapshot, now>>

\* the fetch completes: the list is the group's members as the remote API has
\* them, the cache is Fresh for its TTL and a jitter chosen anew
NodesFetched(t) ==
    /\ frame[t].op = "ScaleSet.Nodes"
    /\ frame[t].pc = "refresh_fetch"
    /\ \E j \in 0..MaxJitter :
          instanceCache' = [list |-> members[frame[t].g].ids,
                            version |-> instanceCache.version + 1,
                            lastRefresh |-> now, jitter |-> j,
                            invalidated |-> FALSE, owner |-> "none"]
    /\ frame' = [frame EXCEPT ![t] = [@ EXCEPT !.pc = "ret",
                                               !.out.list = members[frame[t].g].ids]]
    /\ UNCHANGED <<heap, reg, held, rlock, members, remoteScaleSets, remotePools,
                   enableVMsAgentPool, remoteVMs, snapshot, now>>

\* a scaling operation invalidates a Fresh or Stale list
InvalidateInstanceCache ==
    /\ InstanceCacheState(instanceCache, now) \in {"Fresh", "Stale"}
    /\ instanceCache' = [instanceCache EXCEPT !.invalidated = TRUE]
    /\ UNCHANGED <<heap, reg, held, frame, rlock, members, remoteScaleSets,
                   remotePools, enableVMsAgentPool, remoteVMs, snapshot, now>>

(***************************************************************************)
(* Repeated lookups: the caller repeats its last FindForInstance while the *)
(* groups' member listings change in between.  The scale sets are those    *)
(* the remote API has from the start.                                      *)
(***************************************************************************)
InitRepeat ==
    /\ InitCache
    /\ members = [g \in Groups |-> NoListing]
    /\ remoteScaleSets \in ScaleSetListings
    /\ remotePools = <<FailedPage>>
    /\ enableVMsAgentPool = TRUE

NextRepeat ==
    \/ \E g \in FindGroups : Register("t1", g)
    \/ \E g \in FindGroups : Unregister("t1", g)
    \/ \E ref \in Refs, vmType \in VMTypes : FindCall("t1", ref, vmType)
    \/ FindAgain("t1")
    \/ FindFilter("t1")
    \/ FindScan("t1")
    \/ \E g \in FindGroups, listing \in Listings : MembersChange(g, listing)

SpecRepeat == InitRepeat /\ [][NextRepeat]_vars

(***************************************************************************)
(* HasInstance and FindForInstance side by side: one caller asks           *)
(* HasInstance and registers, another asks FindForInstance.                *)
(***************************************************************************)
NextHas ==
    \/ \E g \in FindGroups : Register("t1", g)
    \/ \E g \in FindGroups : Unregister("t1", g)
    \/ \E providerID \in Refs : HasCall("t1", providerID)
    \/ HasScan("t1")
    \/ \E ref \in Refs : FindCall("t2", ref, VMTypeVMs)
    \/ FindFilter("t2")
    \/ FindScan("t2")
    \/ \E g \in FindGroups, listing \in Listings : SetMembers(g, listing)

SpecHas == InitFind /\ [][NextHas]_vars

(***************************************************************************)
(* SKU calls and the cache-management calls among registrations and        *)
(* lookups.                                                                *)
(***************************************************************************)
SkuNames == {<<"a">>, <<"b">>}

Locations == {"", "r"}

SkuListings ==
    {[err |-> TRUE, skus |-> {}],
     [err |-> FALSE, skus |-> {}],
     [err |-> FALSE, skus |-> {Sku(<<"A">>, VirtualMachines, "r"),
                               Sku(<<"b">>, "disks", "r"),
                               Sku(<<"b">>, VirtualMachines, "x")}]}

NextSku ==
    \/ \E g \in FindGroups : Register("t1", g)
    \/ \E g \in FindGroups : Unregister("t1", g)
    \/ \E skuName \in SkuNames, location \in Locations, listing \in SkuListings :
          GetSKU("t1", skuName, location, listing)
    \/ HasVMSKUs("t1")
    \/ Regenerate("t2")
    \/ Cleanup("t2")
    \/ HasCall("t2", RefVM)
    \/ HasScan("t2")
    \/ \E g \in FindGroups, listing \in Listings : SetMembers(g, listing)

SpecSku == InitFind /\ [][NextSku]_vars

(***************************************************************************)
(* The listing accessors against remote data that changes between calls,   *)
(* with the instance-backed-pool feature on or off.                        *)
(***************************************************************************)
Tags(a, b) ==
    [k \in {[option |-> TRUE, name |-> "a"], [option |-> FALSE, name |-> "b"]} |->
        IF k.option THEN a ELSE b]

TaggedScaleSet(name, mode, tags) == [name |-> name, mode |-> mode, tags |-> tags]

TaggedListings ==
    {[err |-> TRUE, sets |-> <<>>],
     [err |-> FALSE, sets |-> <<TaggedScaleSet("A", Uniform, Tags("1", "2"))>>],
     [err |-> FALSE, sets |-> <<TaggedScaleSet("A", Uniform, Tags("3", "2")),
                                TaggedScaleSet("B", Flexible, Tags("1", "2"))>>]}

VM(name, tagged, pool, legacy) ==
    [name |-> name, tagged |-> tagged, pool |-> pool, legacy |-> legacy]

VMListings ==
    {[err |-> TRUE, vms |-> <<>>],
     NoVMs,
     [err |-> FALSE, vms |-> <<VM("v1", TRUE, "p", NoTag), VM("v2", TRUE, NoTag, "p"),
                               VM("v3", FALSE, NoTag, NoTag), VM("v4", TRUE, NoTag, NoTag),
                               VM("v5", TRUE, "q", "p")>>]}

PagedPoolListings ==
    {<<FailedPage>>,
     <<Page(<<Pool("vms", AgentPoolTypeVirtualMachines)>>)>>,
     <<Page(<<Pool("vms", AgentPoolTypeVirtualMachines)>>), FailedPage>>,
     <<Page(<<Pool("ss", AgentPoolTypeVMSS)>>),
       Page(<<Pool("vms", AgentPoolTypeVirtualMachines)>>)>>}

InitList ==
    /\ InitCache
    /\ members = [g \in Groups |-> NoListing]
    /\ remoteScaleSets = NoScaleSets
    /\ remotePools = <<FailedPage>>
    /\ enableVMsAgentPool \in BOOLEAN

NextList ==
    \/ \E t \in Threads : GetScaleSetsCall(t)
    \/ GetVirtualMachinesCall("t1")
    \/ GetVMsPoolMapCall("t1")
    \/ \E name \in {"A", "B"} : GetAutoscalingOptionsCall("t1", name)
    \/ \E t \in Threads : RemoteResponds(t)
    \/ \E t \in Threads : DeadlineExpires(t)
    \/ \E remote \in TaggedListings : SetScaleSets(remote)
    \/ \E remote \in VMListings : SetVMs(remote)
    \/ \E pages \in PagedPoolListings : SetPools(pages)

SpecList == InitList /\ [][NextList]_vars

(***************************************************************************)
(* The accessors against a remote API that may never answer: a context's   *)
(* timer, where it has one, does fire.                                     *)
(***************************************************************************)
NextDeadline ==
    \/ \E t \in Threads : GetScaleSetsCall(t)
    \/ \E t \in Threads : GetVirtualMachinesCall(t)
    \/ \E t \in Threads : GetVMsPoolMapCall(t)
    \/ \E t \in Threads : RemoteResponds(t)
    \/ \E t \in Threads : DeadlineExpires(t)
    \/ \E remote \in TaggedListings : SetScaleSets(remote)
    \/ \E remote \in VMListings : SetVMs(remote)

SpecDeadline ==
    /\ InitList
    /\ [][NextDeadline]_vars
    /\ \A t \in Threads : WF_vars(DeadlineExpires(t))

(***************************************************************************)
(* Parallel callers: lookups scan while registrations wait for the mutex.  *)
(***************************************************************************)
NextConc ==
    \/ \E t \in Threads : \E g \in GroupsOf("t2") : RegisterCall(t, g)
    \/ \E g \in FindGroups : UnregisterCall("t2", g)
    \/ \E t \in Threads : WriterLocked(t)
    \/ FindCall("t1", RefVM, VMTypeVMs)
    \/ FindFilter("t1")
    \/ FindScan("t1")
    \/ \E t \in Threads : HasCall(t, RefVM)
    \/ \E t \in Threads : HasScan(t)
    \/ \E g \in FindGroups, listing \in Listings : SetMembers(g, listing)

SpecConc == InitFind /\ [][NextConc]_vars

(***************************************************************************)
(* The cached engine with one group, refreshed between changes of the      *)
(* remote data.                                                            *)
(***************************************************************************)
CachedGroup == MockGroup(<<"p", "a">>)

CachedListings ==
    {[err |-> TRUE, ids |-> <<>>], NoListing,
     [err |-> FALSE, ids |-> <<ResourceId(<<"r">>, "vm", <<"X">>)>>]}

CachedScaleSetListings ==
    {[err |-> TRUE, sets |-> <<>>],
     [err |-> FALSE, sets |-> <<ScaleSet("A", Uniform), ScaleSet("B", Flexible)>>]}

CachedPoolListings ==
    {<<FailedPage>>, <<Page(<<Pool("vms", AgentPoolTypeVirtualMachines)>>)>>}

NextCached ==
    \/ Register("t1", CachedGroup)
    \/ Unregister("t1", CachedGroup)
    \/ \E forced \in BOOLEAN : CachedRegenerateCall("t1", forced)
    \/ CachedRegenerateStep("t1")
    \/ InvalidateCache("t1")
    \/ CachedFind("t1", RefVM, VMTypeVMs)
    \/ Tick
    \/ \E listing \in CachedListings : SetMembers(CachedGroup, listing)
    \/ \E remote \in CachedScaleSetListings : SetScaleSets(remote)
    \/ \E pages \in CachedPoolListings : SetPools(pages)

SpecCached == InitFind /\ [][NextCached]_vars

(***************************************************************************)
(* The cached engine's negative-result set: lookups of two references      *)
(* under every vmType, between forced and unforced refreshes.              *)
(***************************************************************************)
NextNeg ==
    \/ Register("t1", CachedGroup)
    \/ Unregister("t1", CachedGroup)
    \/ \E forced \in BOOLEAN : CachedRegenerateCall("t1", forced)
    \/ CachedRegenerateStep("t1")
    \/ \E ref \in {RefVM, RefVMSS}, vmType \in VMTypes : CachedFind("t1", ref, vmType)
    \/ \E listing \in CachedListings : SetMembers(CachedGroup, listing)
    \/ \E pages \in CachedPoolListings : SetPools(pages)

SpecNeg == InitFind /\ [][NextNeg]_vars

(***************************************************************************)
(* Two callers of one group's instance cache, while the clock advances,    *)
(* the group's remote members change and scaling operations invalidate.    *)
(***************************************************************************)
NextFlight ==
    \/ \E t \in Threads : NodesCall(t, CachedGroup)
    \/ \E t \in Threads : NodesRefresh(t)
    \/ \E t \in Threads : NodesFetched(t)
    \/ InvalidateInstanceCache
    \/ Tick
    \/ \E listing \in CachedListings : ~listing.err /\ SetMembers(CachedGroup, listing)

SpecFlight == InitFind /\ [][NextFlight]_vars

(***************************************************************************)
(* Every accessor of the direct engine, called by one caller while another *)
(* registers and unregisters and the remote data changes.                  *)
(***************************************************************************)
NextAccess ==
    \/ Register("t2", CachedGroup)
    \/ Unregister("t2", CachedGroup)
    \/ GetRegisteredNodeGroups("t1")
    \/ DropHeld("t1")
    \/ \E ref \in {RefVM, RefBad} : FindCall("t1", ref, VMTypeVMSS)
    \/ FindFilter("t1")
    \/ FindScan("t1")
    \/ \E providerID \in {RefVM, RefBad} : HasCall("t1", providerID)
    \/ HasScan("t1")
    \/ GetScaleSetsCall("t1")
    \/ GetVirtualMachinesCall("t1")
    \/ GetVMsPoolMapCall("t1")
    \/ GetAutoscalingOptionsCall("t1", "A")
    \/ RemoteResponds("t1")
    \/ HasVMSKUs("t1")
    \/ \E location \in Locations, listing \in SkuListings :
          GetSKU("t1", <<"a">>, location, listing)
    \/ \E listing \in CachedListings : SetMembers(CachedGroup, listing)
    \/ \E remote \in TaggedListings : SetScaleSets(remote)

SpecAccess == InitFind /\ [][NextAccess]_vars

(***************************************************************************)
(* HasInstance by one caller and FindForInstance, under every vmType, by   *)
(* another, on the same registrations and member listings.                 *)
(***************************************************************************)
NextBoth ==
    \/ \E g \in FindGroups : Register("t1", g)
    \/ \E g \in FindGroups : Unregister("t1", g)
    \/ \E providerID \in Refs : HasCall("t1", providerID)
    \/ HasScan("t1")
    \/ \E ref \in Refs, vmType \in VMTypes : FindCall("t2", ref, vmType)
    \/ FindFilter("t2")
    \/ FindScan("t2")
    \/ \E g \in FindGroups, listing \in Listings : SetMembers(g, listing)

SpecBoth == InitFind /\ [][NextBoth]_vars

(***************************************************************************)
(* Scale-set lookups while the remote listings fail, come back empty or    *)
(* list something.                                                         *)
(***************************************************************************)
NextEmpty ==
    \/ \E g \in FindGroups : Register("t1", g)
    \/ \E g \in FindGroups : Unregister("t1", g)
    \/ \E ref \in {RefVM, RefVMSS} : FindCall("t1", ref, VMTypeVMSS)
    \/ FindFilter("t1")
    \/ FindScan("t1")
    \/ \E g \in FindGroups, listing \in Listings : SetMembers(g, listing)
    \/ \E remote \in ScaleSetListings : SetScaleSets(remote)
    \/ \E pages \in {<<FailedPage>>, <<Page(<<>>)>>, <<Page(<<>>), FailedPage>>,
                     <<Page(<<Pool("vms", AgentPoolTypeVirtualMachines)>>)>>} :
          SetPools(pages)

SpecEmpty == InitFind /\ [][NextEmpty]_vars

(***************************************************************************)
(* Properties.                                                             *)
(***************************************************************************)
Registered == Elems(heap, reg)

\* equality ignoring case, stated on the folded strings
FoldEq(a, b) == LowerStr(a) = LowerStr(b)

\* the positions of the registered groups whose id is g's ignoring case
Matches(g) == {i \in 1..Len(Registered) : FoldEq(Registered[i].id, g.id)}

FirstMatch(g) == CHOOSE i \in Matches(g) : \A j \in Matches(g) : i <= j

Differs(x, g) == x.min # g.min \/ x.max # g.max

RegisterReturned(t) == frame[t].op = "Register" /\ frame[t].pc = "ret"

UnregisterReturned(t) == frame[t].op = "Unregister" /\ frame[t].pc = "ret"

\* C1: Register(g), when a registered group has g's id ignoring case and g's
\* MinSize and MaxSize, returns false and leaves the registered list as it
\* was; on an empty registry Register(g) returns true and the list is <<g>>,
\* so a second Register(g) returns false with exactly one group registered.
C1_RegisterSameIsNoOp ==
    [][\A t \in Threads, g \in Groups :
          (frame'[t].g = g /\ Register(t, g)) =>
              /\ (\E i \in Matches(g) : ~Differs(Registered[i], g)) =>
                     (~frame'[t].ret /\ Registered' = Registered /\ reg' = reg)
              /\ Registered = <<>> => (frame'[t].ret /\ Registered' = <<g>>)]_vars

\* a Register of an id differing only in case returned false; one group is registered
C1_Witness ==
    \E t \in Threads :
        /\ RegisterReturned(t)
        /\ ~frame[t].ret
        /\ Len(Registered) = 1
        /\ Registered[1].id # frame[t].g.id
        /\ FoldEq(Registered[1].id, frame[t].g.id)

\* C2: Register(g), when a registered group has g's id ignoring case but another
\* MinSize or MaxSize, returns true and replaces that record in place (same
\* length, every other entry where it was); with no matching id it returns true
\* and appends g at the end, the existing entries unchanged.
C2_RegisterUpdatesInPlaceOrAppends ==
    [][\A t \in Threads, g \in Groups :
          (frame'[t].g = g /\ Register(t, g)) =>
              /\ (Matches(g) # {} /\ Differs(Registered[FirstMatch(g)], g)) =>
                     /\ frame'[t].ret
                     /\ Registered' = [Registered EXCEPT ![FirstMatch(g)] = g]
              /\ Matches(g) = {} =>
                     /\ frame'[t].ret
                     /\ Registered' = Registered \o <<g>>]_vars

\* a Register returned true and its group stands before another registered group,
\* with no other call made since: the record was replaced where it was
C2_Witness ==
    \E t \in Threads :
        /\ RegisterReturned(t)
        /\ frame[t].ret
        /\ \A u \in Threads \ {t} : frame[u].pc = "idle"
        /\ Len(Registered) = 3
        /\ Registered[2] = frame[t].g
        /\ Differs(frame[t].g, MockGroup(frame[t].g.id))

\* the registered groups left once those with g's id ignoring case are taken out
RECURSIVE Without(_, _)
Without(s, g) ==
    IF s = <<>> THEN <<>>
    ELSE IF FoldEq(s[1].id, g.id) THEN Without(Tail(s), g)
    ELSE <<s[1]>> \o Without(Tail(s), g)

\* C3: Unregister(g) removes every registered entry with g's id ignoring case,
\* keeps the others in their order, and returns true exactly when an entry was
\* removed; for an id matching no entry it returns false and the list is unchanged.
C3_UnregisterRemovesMatches ==
    [][\A t \in Threads, g \in Groups :
          (frame'[t].g = g /\ Unregister(t, g)) =>
              /\ Registered' = Without(Registered, g)
              /\ frame'[t].ret = (Matches(g) # {})
              /\ Matches(g) = {} => (~frame'[t].ret /\ Registered' = Registered)]_vars

\* an Unregister returned true and left two groups registered
C3_Witness ==
    \E t \in Threads :
        /\ UnregisterReturned(t)
        /\ frame[t].ret
        /\ Len(Registered) = 2

\* C4: no two registered groups have ids that are equal ignoring case.
C4_RegisteredIdsUnique ==
    \A i, j \in 1..Len(Registered) :
        i # j => ~FoldEq(Registered[i].id, Registered[j].id)

\* three groups are registered and the last Register, of an upper-case id, met
\* the registered lower-case one
C4_Witness ==
    \E t \in Threads :
        /\ RegisterReturned(t)
        /\ frame[t].g.id = <<"P", "A">>
        /\ Len(Registered) = 3
        /\ \E i \in 1..Len(Registered) : Registered[i].id = <<"p", "a">>

\* C5: the list getRegisteredNodeGroups returned keeps its length and entries
\* through every later Register and Unregister.
C5_ReturnedListIsSnapshot ==
    [][\A t \in Threads :
          (held[t] # EmptySlice /\ held'[t] = held[t]) =>
              Elems(heap', held'[t]) = Elems(heap, held[t])]_vars

(***************************************************************************)
(* Properties of FindForInstance, stated on a returned call: the remote    *)
(* data and the registrations are then those the call ran against.         *)
(***************************************************************************)
FindReturned(t) == frame[t].op = "FindForInstance" /\ frame[t].pc = "ret"

Parses(ref) == ref.kind # "other"

PlainVM(ref) == ref.kind = "vm"

\* the id is in the listing, ignoring case
InListing(listing, ref) ==
    /\ ~listing.err
    /\ \E k \in 1..Len(listing.ids) :
          /\ listing.ids[k].kind = ref.kind
          /\ FoldEq(listing.ids[k].rg, ref.rg)
          /\ FoldEq(listing.ids[k].name, ref.name)

\* the positions of the registered groups that list the id
Listing(ref) == {i \in 1..Len(Registered) : InListing(members[Registered[i]], ref)}

FirstListing(ref) == CHOOSE i \in Listing(ref) : \A j \in Listing(ref) : i <= j

SomeFlexible ==
    /\ ~remoteScaleSets.err
    /\ \E k \in 1..Len(remoteScaleSets.sets) : remoteScaleSets.sets[k].mode = Flexible

\* the call ended at the known-foreign shortcut's conditions
KnownForeign(f) ==
    /\ f.vmType = VMTypeVMSS
    /\ f.vmsPoolMap = {}
    /\ ~SomeFlexible
    /\ PlainVM(f.ref)

\* the call ended at the standard filter's conditions
NotStandardVM(f) == f.vmType = VMTypeStandard /\ ~PlainVM(f.ref)

\* the registered-group search ran to its first match, or through all groups
Searched(f) ==
    /\ f.err = "nil"
    /\ Listing(f.ref) # {} =>
          /\ f.retGroup = Registered[FirstListing(f.ref)]
          /\ f.nodesCalled = SubSeq(Registered, 1, FirstListing(f.ref))
    /\ Listing(f.ref) = {} =>
          /\ f.retGroup = NoGroup
          /\ f.nodesCalled = Registered

\* C6, as claimed: FindForInstance returns group G whenever a registered group G
\* lists the reference's normalised id, ignoring case.
C6_FindReturnsEveryListingGroup ==
    \A t \in Threads :
        (FindReturned(t) /\ Parses(frame[t].ref)) =>
            \A i \in Listing(frame[t].ref) : frame[t].retGroup = Registered[i]

\* C6, amended: unless the call ends at the known-foreign shortcut or at the
\* standard filter, FindForInstance returns the first registered group, in
\* registration order, that lists the reference's normalised id ignoring case.
C6_FindReturnsFirstListingGroup ==
    \A t \in Threads :
        (/\ FindReturned(t)
         /\ Parses(frame[t].ref)
         /\ ~KnownForeign(frame[t])
         /\ ~NotStandardVM(frame[t])
         /\ Listing(frame[t].ref) # {}) =>
            /\ frame[t].retGroup = Registered[FirstListing(frame[t].ref)]
            /\ frame[t].err = "nil"

\* a scale-set lookup with a flexible scale set known returned the second
\* registered group, the first one not listing the id
C6_Witness ==
    \E t \in Threads :
        /\ FindReturned(t)
        /\ frame[t].vmType = VMTypeVMSS
        /\ frame[t].vmsPoolMap = {}
        /\ SomeFlexible
        /\ Len(Registered) = 2
        /\ Listing(frame[t].ref) = {2}
        /\ frame[t].retGroup = Registered[2]

\* C7: FindForInstance(ref, ScaleSetBacked), with an empty instance-backed-pool
\* map, no known scale set flexible and a plain-virtual-machine id, returns
\* (none, no error) without calling any registered group's member listing.
C7_KnownForeignSkipsSearch ==
    \A t \in Threads :
        (FindReturned(t) /\ KnownForeign(frame[t])) =>
            /\ frame[t].retGroup = NoGroup
            /\ frame[t].err = "nil"
            /\ frame[t].nodesCalled = <<>>

\* the shortcut was taken with scale sets A and B uniform while a registered
\* group lists the id
C7_Witness ==
    \E t \in Threads :
        /\ FindReturned(t)
        /\ KnownForeign(frame[t])
        /\ ~remoteScaleSets.err
        /\ Len(remoteScaleSets.sets) = 2
        /\ Listing(frame[t].ref) # {}
        /\ frame[t].retGroup = NoGroup

\* C8: FindForInstance(ref, ScaleSetBacked), with a flexible scale set known,
\* goes on to the registered-group search and returns the first group listing
\* the id (none, all groups listed, when no group does).
C8_FlexibleReachesSearch ==
    \A t \in Threads :
        (/\ FindReturned(t)
         /\ frame[t].vmType = VMTypeVMSS
         /\ SomeFlexible
         /\ Parses(frame[t].ref)) => Searched(frame[t])

\* with no VMs pool and scale set B flexible, a plain-virtual-machine id was
\* found in a registered group
C8_Witness ==
    \E t \in Threads :
        /\ FindReturned(t)
        /\ frame[t].vmType = VMTypeVMSS
        /\ frame[t].vmsPoolMap = {}
        /\ frame[t].ssListed
        /\ SomeFlexible
        /\ PlainVM(frame[t].ref)
        /\ frame[t].retGroup # NoGroup
        /\ frame[t].retGroup = Registered[FirstListing(frame[t].ref)]

\* C9: with a non-empty instance-backed-pool map obtained at the start of the
\* call, FindForInstance does not list the scale sets, and a ScaleSetBacked
\* lookup always reaches the registered-group search.
C9_PoolsSkipShortcut ==
    \A t \in Threads :
        (frame[t].op = "FindForInstance" /\ frame[t].vmsPoolMap # {}) =>
            /\ ~frame[t].ssListed
            /\ (/\ frame[t].pc = "ret"
                /\ frame[t].vmType = VMTypeVMSS
                /\ Parses(frame[t].ref)) => Searched(frame[t])

\* with a VMs pool and no flexible scale set, a scale-set lookup of a
\* plain-virtual-machine id returned the group listing it
C9_Witness ==
    \E t \in Threads :
        /\ FindReturned(t)
        /\ frame[t].vmsPoolMap # {}
        /\ frame[t].vmType = VMTypeVMSS
        /\ ~remoteScaleSets.err
        /\ Len(remoteScaleSets.sets) = 2
        /\ ~SomeFlexible
        /\ PlainVM(frame[t].ref)
        /\ frame[t].retGroup # NoGroup

\* C10: FindForInstance(ref, Standalone) returns (none, no error) without
\* listing any group when the id is no plain-virtual-machine id; when it is
\* one and no registered group lists it, it returns (none, no error) after
\* listing every registered group.
C10_StandardFilter ==
    \A t \in Threads :
        (/\ FindReturned(t)
         /\ frame[t].vmType = VMTypeStandard
         /\ Parses(frame[t].ref)) =>
            /\ ~PlainVM(frame[t].ref) =>
                  /\ frame[t].retGroup = NoGroup
                  /\ frame[t].err = "nil"
                  /\ frame[t].nodesCalled = <<>>
            /\ (PlainVM(frame[t].ref) /\ Listing(frame[t].ref) = {}) =>
                  /\ frame[t].retGroup = NoGroup
                  /\ frame[t].err = "nil"
                  /\ frame[t].nodesCalled = Registered

\* a standard lookup of a scale-set member's id returned none although a
\* registered group lists that id
C10_Witness ==
    \E t \in Threads :
        /\ FindReturned(t)
        /\ frame[t].vmType = VMTypeStandard
        /\ ~PlainVM(frame[t].ref)
        /\ Parses(frame[t].ref)
        /\ Listing(frame[t].ref) # {}
        /\ frame[t].retGroup = NoGroup

\* C11: FindForInstance returns an error exactly when the reference does not
\* parse as a fleet resource id, and the error is then InvalidReference with
\* no group's member listing and no scale-set listing invoked; a failed
\* agent-pool, scale-set or member listing never shows as an error.
C11_ErrorIffUnparseable ==
    \A t \in Threads :
        FindReturned(t) =>
            /\ (frame[t].err # "nil") <=> ~Parses(frame[t].ref)
            /\ ~Parses(frame[t].ref) =>
                  /\ frame[t].err = "InvalidReference"
                  /\ frame[t].retGroup = NoGroup
                  /\ frame[t].nodesCalled = <<>>
                  /\ ~frame[t].ssListed

\* a scale-set lookup of an unparseable reference returned InvalidReference
\* with two groups registered and no VMs pool known
C11_Witness ==
    \E t \in Threads :
        /\ FindReturned(t)
        /\ ~Parses(frame[t].ref)
        /\ frame[t].err = "InvalidReference"
        /\ frame[t].vmType = VMTypeVMSS
        /\ frame[t].vmsPoolMap = {}
        /\ Len(Registered) = 2

HasReturned(t) == frame[t].op = "HasInstance" /\ frame[t].pc = "ret"

\* C13: HasInstance of an id that parses returns (true, no error) exactly when
\* a registered group's member listing contains the normalised id ignoring
\* case, and (false, not implemented) when no group lists it; FindForInstance
\* returns (none, no error) for an id that parses and that no group lists.
C13_HasInstanceNotImplemented ==
    \A t \in Threads :
        /\ (HasReturned(t) /\ Parses(frame[t].ref)) =>
              /\ (frame[t].ret /\ frame[t].err = "nil") <=> (Listing(frame[t].ref) # {})
              /\ Listing(frame[t].ref) = {} =>
                    (~frame[t].ret /\ frame[t].err = "NotImplemented")
        /\ (FindReturned(t) /\ Parses(frame[t].ref) /\ Listing(frame[t].ref) = {}) =>
              (frame[t].retGroup = NoGroup /\ frame[t].err = "nil")

\* with two groups registered that do not list the id, HasInstance returned
\* (false, not implemented) and FindForInstance of the same id (none, no error)
C13_Witness ==
    /\ HasReturned("t1")
    /\ FindReturned("t2")
    /\ frame["t1"].ref = frame["t2"].ref
    /\ Parses(frame["t1"].ref)
    /\ Len(Registered) = 2
    /\ frame["t1"].nodesCalled = Registered
    /\ frame["t2"].nodesCalled = Registered
    /\ ~frame["t1"].ret
    /\ frame["t1"].err = "NotImplemented"
    /\ frame["t2"].retGroup = NoGroup
    /\ frame["t2"].err = "nil"

\* C14: HasVMSKUs returns false in every reachable state, before any GetSKU
\* and after GetSKU calls that returned a SKU or failed.
C14_HasVMSKUsFalse ==
    \A t \in Threads :
        (frame[t].op = "HasVMSKUs" /\ frame[t].pc = "ret") => ~frame[t].ret

\* HasVMSKUs returned false to a caller whose GetSKU just before returned a SKU
C14_Witness ==
    \E t \in Threads :
        /\ frame[t].op = "HasVMSKUs"
        /\ frame[t].pc = "ret"
        /\ frame[t].prev = "sku"
        /\ ~frame[t].ret

\* C15: regenerate and Cleanup, whenever called, leave the registered list and
\* everything else of the engine as it was and issue no remote call, and
\* regenerate returns no error; the calls of the engine are enabled after
\* them as before.
C15_RegenerateCleanupNoOps ==
    [][\A t \in Threads :
          (frame'[t].op \in {"regenerate", "Cleanup"} /\ frame'[t] # frame[t]) =>
              /\ reg' = reg
              /\ Registered' = Registered
              /\ heap' = heap
              /\ rlock' = rlock
              /\ held' = held
              /\ \A u \in Threads \ {t} : frame'[u] = frame[u]
              /\ frame'[t].err = "nil"
              /\ frame'[t].remote = <<>>
              /\ frame'[t].nodesCalled = <<>>
              /\ ~frame'[t].ssListed]_vars

\* Cleanup returned with two groups registered
C15_Witness ==
    \E t \in Threads :
        /\ frame[t].op = "Cleanup"
        /\ frame[t].pc = "ret"
        /\ Len(Registered) = 2

Accessors == {"getScaleSets", "getVirtualMachines", "getVMsPoolMap", "getAutoscalingOptions"}

\* an accessor's call returns in this step
AccessorReturns(t) ==
    /\ frame'[t] # frame[t]
    /\ frame'[t].op \in Accessors
    /\ frame'[t].pc = "ret"

\* what the remote API lists now
ListedScaleSets ==
    IF remoteScaleSets.err THEN {}
    ELSE {remoteScaleSets.sets[k] : k \in 1..Len(remoteScaleSets.sets)}

ListedVMs ==
    IF remoteVMs.err THEN {} ELSE {remoteVMs.vms[k] : k \in 1..Len(remoteVMs.vms)}

ListedPools ==
    IF ~enableVMsAgentPool \/ \E k \in 1..Len(remotePools) : remotePools[k].err THEN {}
    ELSE UNION {{remotePools[k].value[j] : j \in 1..Len(remotePools[k].value)} :
                   k \in 1..Len(remotePools)}

\* the VM is tagged with the pool, by the pool tag or else by the legacy tag
TaggedWith(x, n) == x.tagged /\ (x.pool = n \/ (x.pool = NoTag /\ x.legacy = n))

\* m is what the accessor is to return from the remote data as it is now
Fresh(op, name, m) ==
    CASE op = "getScaleSets" ->
            /\ DOMAIN m = {x.name : x \in ListedScaleSets}
            /\ \A n \in DOMAIN m : m[n] \in ListedScaleSets /\ m[n].name = n
      [] op = "getVirtualMachines" ->
            /\ DOMAIN m = {n \in {"p", "q"} : \E x \in ListedVMs : TaggedWith(x, n)}
            /\ \A n \in DOMAIN m :
                  {m[n][k] : k \in 1..Len(m[n])} = {x \in ListedVMs : TaggedWith(x, n)}
      [] op = "getVMsPoolMap" ->
            DOMAIN m = {x.name : x \in {y \in ListedPools :
                                           y.type = AgentPoolTypeVirtualMachines}}
      [] op = "getAutoscalingOptions" ->
            IF \E x \in ListedScaleSets : x.name = name
            THEN LET x == CHOOSE y \in ListedScaleSets : y.name = name
                 IN  /\ DOMAIN m = {k.name : k \in {y \in DOMAIN x.tags : y.option}}
                     /\ \A n \in DOMAIN m : m[n] = x.tags[[option |-> TRUE, name |-> n]]
            ELSE DOMAIN m = {}

RemoteFails(op) ==
    CASE op = "getVirtualMachines" -> remoteVMs.err
      [] op = "getVMsPoolMap" -> \E k \in 1..Len(remotePools) : remotePools[k].err
      [] OTHER -> remoteScaleSets.err

\* C17: a listing accessor whose remote listing fails, or whose deadline
\* passes, returns the empty map and no error; it never returns part of a
\* listing; getVMsPoolMap returns the empty map when any page fails, also
\* after pages that were fetched, and the empty map without a remote call
\* when the instance-backed-pool feature is off.
C17_AccessorsDegradeToEmpty ==
    [][\A t \in Threads :
          AccessorReturns(t) =>
              /\ frame'[t].err = "nil"
              /\ DOMAIN frame'[t].out = {}
                    \/ Fresh(frame'[t].op, frame'[t].ref.name, frame'[t].out)
              /\ (RemoteFails(frame'[t].op) \/ DeadlineExpires(t)) =>
                    DOMAIN frame'[t].out = {}
              /\ (frame'[t].op = "getVMsPoolMap" /\ ~enableVMsAgentPool) =>
                    (DOMAIN frame'[t].out = {} /\ frame'[t].remote = <<>>)]_vars

\* getVMsPoolMap returned the empty map after a first page that was fetched
\* and a second that failed
C17_Witness ==
    \E t \in Threads :
        /\ frame[t].op = "getVMsPoolMap"
        /\ frame[t].pc = "ret"
        /\ frame[t].remote = <<"ok", "failed">>
        /\ DOMAIN frame[t].out = {}

\* C18: every remote call of getScaleSets, getVirtualMachines and
\* getVMsPoolMap is made under a deadline, so an accessor waiting for the
\* remote API eventually returns even when the remote API never answers.
C18_AccessorsEventuallyReturn ==
    \A t \in Threads : (frame[t].pc = "wait") ~> (frame[t].pc = "ret")

\* the registered list a Register or Unregister of g leaves when run alone
AfterAlone(op, g) ==
    IF op = "Unregister" THEN Without(Registered, g)
    ELSE IF Matches(g) = {} THEN Registered \o <<g>>
    ELSE [Registered EXCEPT ![FirstMatch(g)] = g]

\* C19: with parallel callers, a FindForInstance or HasInstance scan holds the
\* mutex for reading from its first to its last listing and the registered
\* list does not change in that time, so the groups it lists are the
\* registered list in order; and the registered list changes only by a step
\* of one Register or Unregister call that holds the mutex alone, to what
\* that call run alone leaves, so the final list is that of the calls in the
\* order they got the mutex.
C19_ScansAndWritersExclude ==
    [][/\ \A t \in rlock :
             /\ reg' = reg
             /\ Registered' = Registered
             /\ frame[t].pc \in {"find_scan", "has_scan"}
             /\ frame[t].nodesCalled = SubSeq(Registered, 1, frame[t].i - 1)
             /\ frame'[t].nodesCalled \in
                   {frame[t].nodesCalled, SubSeq(Registered, 1, frame[t].i)}
       /\ (Registered' # Registered \/ reg' # reg) =>
             \E t \in Threads :
                /\ rlock = {}
                /\ frame[t].pc = "lock_wait"
                /\ frame'[t].pc = "ret"
                /\ \A u \in Threads \ {t} : frame'[u].pc = frame[u].pc \/ frame[u].pc = "ret"
                /\ Registered' = AfterAlone(frame[t].op, frame[t].g)]_vars

\* a FindForInstance scan is at its second group while a Register of a third
\* group waits for the mutex
C19_Witness ==
    /\ frame["t1"].pc = "find_scan"
    /\ frame["t1"].i = 2
    /\ "t1" \in rlock
    /\ frame["t2"].pc = "lock_wait"
    /\ frame["t2"].op = "Register"
    /\ \A i \in 1..Len(Registered) : Registered[i] # frame["t2"].g

\* the fetch the cycle is at fails as the remote data is now
CycleFetchFails(pc) ==
    \/ pc = "fetch_scale_sets" /\ remoteScaleSets.err
    \/ pc = "fetch_vms" /\ remoteVMs.err
    \/ pc = "fetch_pools" /\ enableVMsAgentPool
          /\ \E k \in 1..Len(remotePools) : remotePools[k].err

\* C20: in cached mode, a regenerate cycle in which a fetch fails returns the
\* error and leaves the Snapshot (scale-set map, virtual-machine map, pool
\* map, instance-to-group index, negative-result set, lastRefresh) as it was
\* before the call; no step of a cycle but its publishing changes the
\* Snapshot, so the maps never are a mix of old and new.
C20_FailedRegenerateKeepsSnapshot ==
    [][\A t \in Threads :
          (frame[t].op = "azureCache.regenerate" /\ ~CanCall(t)) =>
              /\ CycleFetchFails(frame[t].pc) =>
                    (frame'[t].pc = "ret" /\ frame'[t].err # "nil")
              /\ (frame'[t].pc = "ret" /\ frame'[t].err # "nil") =>
                    (snapshot' = snapshot /\ snapshot' = frame[t].out.before)
              /\ frame[t].pc # "publish" => snapshot' = snapshot
              /\ snapshot' # snapshot =>
                    /\ \A part \in DOMAIN frame[t].out.cand :
                          snapshot'[part] = frame[t].out.cand[part]
                    /\ snapshot'.unownedInstances = {}
                    /\ snapshot'.lastRefresh = now
                    /\ frame'[t].err = "nil"]_vars

\* regenerate returned the error of a failed agent-pool fetch after its
\* scale-set fetch went well; the Snapshot of an earlier refresh, with a
\* recorded miss since, is as before the call
C20_Witness ==
    \E t \in Threads :
        /\ frame[t].op = "azureCache.regenerate"
        /\ frame[t].pc = "ret"
        /\ frame[t].err = "RemoteFetchFailure"
        /\ DOMAIN frame[t].out.cand.scaleSets # {}
        /\ remotePools = <<FailedPage>>
        /\ snapshot = frame[t].out.before
        /\ snapshot.vmsPoolMap # {}
        /\ snapshot.lastRefresh = 1
        /\ snapshot.lastRefresh < now
        /\ snapshot.unownedInstances # {}

(***************************************************************************)
(* The cached engine's lookups.                                            *)
(***************************************************************************)
CachedFindStep(t) ==
    frame'[t].op = "azureCache.FindForInstance" /\ frame'[t] # frame[t]

\* the reference is in the negative-result set, ignoring the case of its
\* resource group
NegHit(snap, ref) ==
    \E u \in snap.unownedInstances :
        u.kind = ref.kind /\ FoldEq(u.rg, ref.rg) /\ u.name = ref.name

\* the lookup ends at the known-foreign shortcut on the Snapshot's maps
SnapshotKnownForeign(f) ==
    /\ f.vmType = VMTypeVMSS
    /\ snapshot.vmsPoolMap = {}
    /\ \A n \in DOMAIN snapshot.scaleSets : snapshot.scaleSets[n].mode # Flexible
    /\ PlainVM(f.ref)

NotFreshStates == {"Stale", "Invalidated"}

Fetching == {t \in Threads : frame[t].op = "ScaleSet.Nodes" /\ frame[t].pc = "refresh_fetch"}

\* the callers that found the list not Fresh at the same fetch of it
SawNotFresh(t) == frame[t].op = "ScaleSet.Nodes" /\ frame[t].prev # "Fresh"

\* C22: the refresh of a group's instance cache is single-flight: of the
\* callers that find the list Stale or Invalidated after the same fetch, one
\* fetches; at most one fetch is in flight; a caller that did not fetch
\* returns only after a fetch has completed, with the list that is Fresh then,
\* and leaves the cache as it is.
C22_RefreshIsSingleFlight ==
    [][/\ Cardinality({t \in Threads : frame'[t].op = "ScaleSet.Nodes"
                                        /\ frame'[t].pc = "refresh_fetch"}) <= 1
       /\ \A t, u \in Threads :
             (/\ t # u
              /\ frame'[t].op = "ScaleSet.Nodes" /\ frame'[u].op = "ScaleSet.Nodes"
              /\ frame'[t].ssListed /\ frame'[u].ssListed) =>
                 frame'[t].out.at # frame'[u].out.at
       /\ \A t \in Threads :
             (/\ SawNotFresh(t)
              /\ frame[t].pc = "refresh_wait"
              /\ frame'[t].pc = "ret") =>
                 /\ ~frame'[t].ssListed
                 /\ Fetching = {}
                 /\ instanceCache.version > frame[t].i
                 /\ now < instanceCache.lastRefresh + InstanceTTL + instanceCache.jitter
                 /\ ~instanceCache.invalidated
                 /\ frame'[t].out.list = instanceCache.list
                 /\ instanceCache' = instanceCache
       /\ \A t \in Threads :
             (SawNotFresh(t) /\ frame[t].pc = "refresh_wait"
                  /\ frame'[t].pc = "refresh_fetch") =>
                 /\ Fetching = {}
                 /\ instanceCache.version = 0
                       \/ instanceCache.invalidated
                       \/ now >= instanceCache.lastRefresh + InstanceTTL
                                     + instanceCache.jitter
       /\ instanceCache'.version # instanceCache.version =>
             /\ Cardinality(Fetching) = 1
             /\ instanceCache'.version = instanceCache.version + 1]_vars

\* both callers found the list Stale or Invalidated after the same fetch; one
\* of them fetched, the other returned the list of that fetch without one
C22_Witness ==
    \E t, u \in Threads :
        /\ t # u
        /\ frame[t].op = "ScaleSet.Nodes" /\ frame[u].op = "ScaleSet.Nodes"
        /\ frame[t].pc = "ret" /\ frame[u].pc = "ret"
        /\ frame[t].prev \in NotFreshStates /\ frame[u].prev \in NotFreshStates
        /\ frame[t].i = frame[u].i
        /\ frame[t].ssListed /\ ~frame[u].ssListed
        /\ instanceCache.version = frame[t].i + 1
        /\ frame[u].out.list = frame[t].out.list
        /\ frame[u].out.list # <<>>

(***************************************************************************)
(* The direct engine's search of the registered groups.                    *)
(***************************************************************************)
\* C23: when FindForInstance reaches the registered-group search and more
\* than one registered group lists the instance, it returns the one earliest
\* in the registered list and has called Nodes() of the groups up to that one
\* only.
C23_FirstMatchWins ==
    \A t \in Threads :
        (/\ FindReturned(t)
         /\ Parses(frame[t].ref)
         /\ ~KnownForeign(frame[t])
         /\ ~NotStandardVM(frame[t])
         /\ Cardinality(Listing(frame[t].ref)) > 1) =>
            LET first == FirstListing(frame[t].ref)
            IN  /\ frame[t].retGroup = Registered[first]
                /\ Len(frame[t].nodesCalled) = first
                /\ \A k \in 1..first : frame[t].nodesCalled[k] = Registered[k]
                /\ \A k \in (first + 1)..Len(Registered) :
                      \A j \in 1..Len(frame[t].nodesCalled) :
                          frame[t].nodesCalled[j] # Registered[k]

\* both registered groups list the instance; the lookup returned the first
\* and called Nodes() of the first only
C23_Witness ==
    \E t \in Threads :
        /\ FindReturned(t)
        /\ Len(Registered) = 2
        /\ Listing(frame[t].ref) = {1, 2}
        /\ frame[t].retGroup = Registered[1]
        /\ frame[t].nodesCalled = <<Registered[1]>>

\* the positions of the registered groups whose Nodes() fails
Failing == {i \in 1..Len(Registered) : members[Registered[i]].err}

\* the scan called Nodes() of the groups up to the first that lists the id, or
\* of all of them
ScannedOn(f) ==
    f.nodesCalled = IF Listing(f.ref) = {} THEN Registered
                    ELSE SubSeq(Registered, 1, FirstListing(f.ref))

\* C24: in FindForInstance and HasInstance a registered group whose Nodes()
\* returns an error is skipped and the scan goes on with the next group: the
\* error of the listing is never the call's error, and an instance a later
\* group lists is found.
C24_FailedListingIsSkipped ==
    \A t \in Threads :
        /\ (FindReturned(t) /\ Parses(frame[t].ref) /\ Failing # {}
                /\ ~KnownForeign(frame[t]) /\ ~NotStandardVM(frame[t])) =>
              /\ frame[t].err = "nil"
              /\ ScannedOn(frame[t])
              /\ Listing(frame[t].ref) # {} =>
                    frame[t].retGroup = Registered[FirstListing(frame[t].ref)]
        /\ (HasReturned(t) /\ Parses(frame[t].ref) /\ Failing # {}) =>
              /\ frame[t].err \in {"nil", "NotImplemented"}
              /\ ScannedOn(frame[t])
              /\ Listing(frame[t].ref) # {} => (frame[t].ret /\ frame[t].err = "nil")

\* the first registered group's Nodes() fails and the second lists the id:
\* HasInstance returned true and FindForInstance the second group
C24_Witness ==
    /\ HasReturned("t1")
    /\ FindReturned("t2")
    /\ frame["t1"].ref = frame["t2"].ref
    /\ Len(Registered) = 2
    /\ Failing = {1}
    /\ Listing(frame["t1"].ref) = {2}
    /\ frame["t1"].ret
    /\ frame["t1"].err = "nil"
    /\ frame["t2"].retGroup = Registered[2]
    /\ frame["t2"].nodesCalled = Registered

(***************************************************************************)
(* What the direct engine retains.                                         *)
(***************************************************************************)
ReadOps ==
    {"getRegisteredNodeGroups", "FindForInstance", "HasInstance", "getScaleSets",
     "getVirtualMachines", "getVMsPoolMap", "getAutoscalingOptions", "HasVMSKUs",
     "GetSKU"}

\* C25: getRegisteredNodeGroups, FindForInstance, HasInstance, getScaleSets,
\* getVirtualMachines, getVMsPoolMap, getAutoscalingOptions, HasVMSKUs and
\* GetSKU leave the registered-group list as it is in every step they take,
\* whether they end well or in an error; the list changes only in the step of
\* a Register or an Unregister that returns true.
C25_OnlyRegistrationsChangeTheList ==
    [][/\ \A t \in Threads :
             (frame'[t] # frame[t] /\ frame'[t].op \in ReadOps) =>
                 (reg' = reg /\ Elems(heap', reg') = Elems(heap, reg))
       /\ Elems(heap', reg') # Elems(heap, reg) =>
             \E t \in Threads :
                 /\ frame'[t].op \in {"Register", "Unregister"}
                 /\ frame'[t].pc = "ret"
                 /\ frame'[t].ret]_vars

\* GetSKU returned an error to the caller that holds a list from
\* getRegisteredNodeGroups, after the other caller's Register of a group:
\* the group is still registered
C25_Witness ==
    /\ frame["t1"].op = "GetSKU"
    /\ frame["t1"].pc = "ret"
    /\ frame["t1"].err # "nil"
    /\ frame["t2"].op = "Register"
    /\ frame["t2"].ret
    /\ Registered = <<CachedGroup>>
    /\ held["t1"] # EmptySlice

(***************************************************************************)
(* FindForInstance against HasInstance.                                    *)
(***************************************************************************)
\* C26: on the same registrations and member listings, whenever
\* FindForInstance(ref, k) returned a group, HasInstance of the same id
\* returned (true, no error); and HasInstance returned true where
\* FindForInstance returned none only when FindForInstance ended at the
\* known-foreign shortcut or at the standard filter, which HasInstance does
\* not apply.
C26_FindImpliesHas ==
    \A t, u \in Threads :
        (/\ FindReturned(t)
         /\ HasReturned(u)
         /\ frame[t].ref = frame[u].ref) =>
            /\ frame[t].retGroup # NoGroup => (frame[u].ret /\ frame[u].err = "nil")
            /\ (frame[u].ret /\ frame[t].retGroup = NoGroup) =>
                  (KnownForeign(frame[t]) \/ NotStandardVM(frame[t]))

\* FindForInstance of a standard lookup returned the second registered group
\* and HasInstance of the same id returned (true, no error)
C26_Witness ==
    \E t, u \in Threads :
        /\ FindReturned(t)
        /\ HasReturned(u)
        /\ frame[t].ref = frame[u].ref
        /\ frame[t].vmType = VMTypeStandard
        /\ Len(Registered) = 2
        /\ frame[t].retGroup = Registered[2]
        /\ frame[u].ret
        /\ frame[u].err = "nil"

(***************************************************************************)
(* Remote listings that fail or come back empty.                           *)
(***************************************************************************)
PoolListingFailedOrEmpty ==
    \/ \E k \in 1..Len(remotePools) : remotePools[k].err
    \/ \A k \in 1..Len(remotePools) : remotePools[k].value = <<>>

ScaleSetListingFailedOrEmpty == remoteScaleSets.err \/ remoteScaleSets.sets = <<>>

\* C27: a FindForInstance(ref, ScaleSetBacked) of a plain-virtual-machine id,
\* made while the agent-pool listing fails or is empty and the scale-set
\* listing fails or is empty, has no instance-backed pool, lists the scale
\* sets, and returns (none, no error) without calling any registered group's
\* member listing, whether or not a registered group lists the id.
C27_FailedListingsMeanNothingExists ==
    \A t \in Threads :
        (/\ FindReturned(t)
         /\ frame[t].vmType = VMTypeVMSS
         /\ PlainVM(frame[t].ref)
         /\ PoolListingFailedOrEmpty
         /\ ScaleSetListingFailedOrEmpty) =>
            /\ frame[t].vmsPoolMap = {}
            /\ frame[t].ssListed
            /\ frame[t].retGroup = NoGroup
            /\ frame[t].err = "nil"
            /\ frame[t].nodesCalled = <<>>

\* the agent-pool listing is empty and the scale-set listing fails; the
\* lookup returned none although both registered groups list the id
C27_Witness ==
    \E t \in Threads :
        /\ FindReturned(t)
        /\ frame[t].vmType = VMTypeVMSS
        /\ PlainVM(frame[t].ref)
        /\ remotePools = <<Page(<<>>)>>
        /\ remoteScaleSets.err
        /\ Listing(frame[t].ref) = {1, 2}
        /\ frame[t].retGroup = NoGroup
        /\ frame[t].err = "nil"
        /\ frame[t].nodesCalled = <<>>

====
